---------------------------- MODULE Spec2Model ----------------------------
(***************************************************************************)
(* A model of discord-llm-demobot: the message chunker                     *)
(* (src/utils/messageChunker.ts), the completion client's retry loop       *)
(* (ChatService.sendChatRequest) and the messages of its request, the      *)
(* thread namer (ChatService.generateThreadName), the thread authorizer    *)
(* and history builder (ThreadService), the message handler                *)
(* (handleMessageCreate) and the /chat command (execute).                  *)
(*                                                                         *)
(* Two ChatServices are modelled, chosen once per behaviour                *)
(* (callsObserver): the one with the retry loop, whose sendChatRequest     *)
(* takes no status callback, and the one handleMessageCreate is written    *)
(* for, whose sendChatRequest tells a status callback {thinking} and       *)
(* {retrying} around the same loop.                                        *)
(*                                                                         *)
(* Strings are sequences of one-character strings, so that length,         *)
(* substring, trim and lastIndexOf are computed as the code computes them. *)
(* Offsets are JavaScript's (0-based): the character at offset i of s is   *)
(* s[i + 1].                                                               *)
(***************************************************************************)
EXTENDS Integers, Sequences, FiniteSets, TLC

VARIABLES
    \* ---- chunkMessage(text, maxLength) ----
    text,           \* the argument text
    maxLength,      \* the argument maxLength
    remainingText,  \* let remainingText
    chunks,         \* const chunks: string[] (the returned list once chunkPc = "done")
    gaps,           \* history: the characters dropped between consecutive chunks
    chunkPc         \* "start", "loop", "done"; "idle" when the chunker is not the subject

chunkVars == <<text, maxLength, remainingText, chunks, gaps, chunkPc>>

VARIABLES
    \* ---- ChatService.sendChatRequest(messages, onStatusUpdate) ----
    attempt,        \* the loop variable `attempt`
    lastError,      \* `lastError`: the message of the last failed attempt, or NoError
    fetchCalls,     \* how many times fetch was invoked
    events,         \* what the status observer received, in order
    chatResult,     \* the value returned or the error thrown, once the call has ended
    chatPc,         \* "start", "attempt", "inflight", "returned", "thrown"; "idle"
    backendFaults,  \* environment: the failures the backend shows during this call
    backendLog,     \* history: the outcome of every fetch, in order
    callsObserver,  \* which ChatService is in use: the one that takes a status
                    \* callback and calls it (TRUE), or the one without (FALSE)
    replies         \* environment: the contents the backend answers the handlers'
                    \* requests with

chatVars == <<attempt, lastError, fetchCalls, events, chatResult, chatPc,
              backendFaults, backendLog, callsObserver, replies>>

VARIABLES
    \* ---- the platform and handleMessageCreate ----
    starter,        \* per thread: what its starter message is
    store,          \* per thread: its messages, oldest first
    nextId,         \* the id the next message gets
    handlers,       \* one record per messageCreate event delivered so far
    outbox,         \* history: every send and edit the bot made, and for which event
    naming,         \* the events whose thread-name generation is under way
    threadName,     \* per thread: its name
    eventsLeft,     \* how many more messageCreate events are delivered
    faultsLeft,     \* how many more of the handlers' requests the backend fails
    postFaultsLeft  \* how many more sends and edits the platform fails

handlerVars == <<starter, store, nextId, handlers, outbox, naming, threadName,
                 eventsLeft, faultsLeft, postFaultsLeft>>

VARIABLES
    \* ---- one call of buildConversationHistory ----
    histFetched,    \* what thread.messages.fetch returned, in the order returned
    histSorted,     \* sortedMessages
    histNext,       \* the index of the loop in sortedMessages
    histResult,     \* conversationHistory
    histPc          \* "idle", "fetched", "loop", "returned"

historyVars == <<histFetched, histSorted, histNext, histResult, histPc>>

VARIABLES
    \* ---- the /chat command: execute(interaction, threadService) ----
    interactions,   \* one record per invocation of /chat so far
    created,        \* the threads that have been started from a reply
    commandsLeft,   \* how many more times /chat is invoked
    commandFaultsLeft, \* how many more calls on an interaction the platform fails
    restartsLeft    \* how many more times the bot's process is restarted

commandVars == <<interactions, created, commandsLeft, commandFaultsLeft, restartsLeft>>

VARIABLES
    \* ---- the request of sendChatRequest, and ChatService.generateThreadName ----
    reqMessages,    \* the argument `messages`: the caller's list
    reqBody,        \* requestBody.messages
    reqSent,        \* history: the messages of the body of every fetch issued
    reqResult,      \* how the call ended: the content returned, or that it threw
    reqPc,          \* "start", "prepared", "returned", "thrown"; "idle"
    nameUser,       \* the argument `userMessage` of generateThreadName
    nameResult,     \* the name generateThreadName returned
    namePc          \* "start", "calling", "returned"; "idle"

requestVars == <<reqMessages, reqBody, reqSent, reqResult, reqPc,
                 nameUser, nameResult, namePc>>

vars == <<chunkVars, chatVars, handlerVars, historyVars, commandVars, requestVars>>

-----------------------------------------------------------------------------
(* Bounds of the model *)

\* Longest text handed to chunkMessage.
MaxTextLen == 6

\* Longest text chunkMessage is applied to when its termination is checked.
MaxFairTextLen == 5

\* Largest maxLength handed to chunkMessage.
MaxChunkLen == 4

\* How many different kinds of failure the backend shows during one call.
MaxFaultKinds == 2

\* How many messageCreate events the bot is delivered, and how many of the
\* handlers' requests to the backend fail.
MaxEvents == 2
MaxFaults == 1

\* How many sends and edits the platform fails.
MaxPostFaults == 2

\* How many times /chat is invoked, how many calls on an interaction fail, and
\* how many times the bot is restarted.
MaxCommands == 1
MaxCommandFaults == 2
MaxRestarts == 1

\* A thread taken up again holds its first user message and up to MaxBacklog
\* messages of the bot after it.
MaxBacklog == 9

\* The histories given to sendChatRequest have up to MaxHistoryLen entries; the
\* replies to the naming request have up to MaxReplyLen characters besides
\* their padding.
MaxHistoryLen == 2
MaxReplyLen == 52

\* How many messages a fetch returns to buildConversationHistory, and how many
\* different creation times they have.
MaxFetched == 3
MaxTimestamp == 3

\* The platform's limit on a message's length (DISCORD_MESSAGE_LIMIT, 2000),
\* scaled down to the length of the model's replies.
MessageLimit == 3

\* The characters texts are made of: a letter, a sentence terminator, and the
\* two whitespace characters the chunker searches for.
Alphabet == {"a", ".", " ", "\n"}

-----------------------------------------------------------------------------
(* Strings *)

Max(S) == CHOOSE x \in S : \A y \in S : y <= x

Min(S) == CHOOSE x \in S : \A y \in S : x <= y

\* /\s/ and the characters String.prototype.trim removes, within Alphabet.
Whitespace == {" ", "\n"}

\* The character class [.!?] of findLastSentenceBreak.
SentenceEnd == {".", "!", "?"}

\* s.substring(from, to)
substring(s, from, to) == SubSeq(s, from + 1, to)

\* s.substring(from)
substringFrom(s, from) == SubSeq(s, from + 1, Len(s))

\* A trim that forgets the trailing side.
trimStartOnly(s) ==
    LET keep == {i \in 1..Len(s) : s[i] \notin Whitespace}
    IN  IF keep = {} THEN <<>> ELSE SubSeq(s, Min(keep), Len(s))

\* s.trim()
trim(s) ==
    LET keep == {i \in 1..Len(s) : s[i] \notin Whitespace}
    IN  IF keep = {} THEN <<>> ELSE SubSeq(s, Min(keep), Max(keep))

\* s.lastIndexOf(c, fromIndex): the largest offset <= fromIndex holding c, or
\* -1; a negative fromIndex counts as 0.
lastIndexOf(s, c, fromIndex) ==
    LET from == IF fromIndex < 0 THEN 0 ELSE fromIndex
    IN  Max({i \in 0..(Len(s) - 1) : i <= from /\ s[i + 1] = c} \cup {-1})

-----------------------------------------------------------------------------
(* messageChunker.ts *)

\* findLastSentenceBreak(text): the offset after the last /[.!?]\s/ match or
\* after a terminator that ends the text (/[.!?]$/), or -1.
findLastSentenceBreak(s) ==
    LET followed == {i + 2 : i \in {j \in 0..(Len(s) - 2) :
                        s[j + 1] \in SentenceEnd /\ s[j + 2] \in Whitespace}}
        atEnd    == IF Len(s) > 0 /\ s[Len(s)] \in SentenceEnd THEN {Len(s)} ELSE {}
    IN  Max(followed \cup atEnd \cup {-1})

\* The 50% gate: `brk > 0 && brk > maxLength * 0.5`.
passesGate(brk, maxLen) == brk > 0 /\ 2 * brk > maxLen

\* A cut at the latest boundary behind the gate, of whatever kind.
chunkEndLatestBoundary(remaining, maxLen) ==
    LET sentenceBreak == findLastSentenceBreak(substring(remaining, 0, maxLen))
        newlineBreak  == lastIndexOf(remaining, "\n", maxLen)
        spaceBreak    == lastIndexOf(remaining, " ", maxLen)
        passing       == {b \in {sentenceBreak, newlineBreak, spaceBreak} :
                            passesGate(b, maxLen)}
    IN  IF passing = {} THEN maxLen ELSE Max(passing)

\* A cut whose sentence search looks one character past the window.
chunkEndWideWindow(remaining, maxLen) ==
    LET sentenceBreak == findLastSentenceBreak(substring(remaining, 0, maxLen + 1))
        newlineBreak  == lastIndexOf(remaining, "\n", maxLen)
        spaceBreak    == lastIndexOf(remaining, " ", maxLen)
    IN  IF passesGate(sentenceBreak, maxLen) THEN sentenceBreak
        ELSE IF passesGate(newlineBreak, maxLen) THEN newlineBreak
        ELSE IF passesGate(spaceBreak, maxLen) THEN spaceBreak
        ELSE maxLen

\* The cut point of one loop iteration (lines 37-56): sentence boundary, else
\* newline, else space, each behind the gate, else a hard cut at maxLength.
chunkEnd(remaining, maxLen) ==
    LET sentenceBreak == findLastSentenceBreak(substring(remaining, 0, maxLen))
        newlineBreak  == lastIndexOf(remaining, "\n", maxLen)
        spaceBreak    == lastIndexOf(remaining, " ", maxLen)
    IN  IF passesGate(sentenceBreak, maxLen) THEN sentenceBreak
        ELSE IF passesGate(newlineBreak, maxLen) THEN newlineBreak
        ELSE IF passesGate(spaceBreak, maxLen) THEN spaceBreak
        ELSE maxLen

\* A single-chunk result that trims the text.
singleChunkTrimmed(s) == <<trim(s)>>

\* `return [text]` of the early return.
singleChunk(s) == <<s>>

\* A remainder that keeps what was cut off.
restAfterKeepingAll(remaining, cut) == trim(remaining)

\* A remainder that also drops the character at the cut.
restAfterBoundary(remaining, cut) == trim(substringFrom(remaining, cut + 1))

\* `remainingText.substring(chunkEnd).trim()`
restAfter(remaining, cut) == trim(substringFrom(remaining, cut))

\* History only: what lies between the chunk pushed by a cut and the next chunk,
\* i.e. the characters of the remainder that neither string keeps.
droppedAt(remaining, cut) ==
    LET head  == substring(remaining, 0, cut)
        tail  == substringFrom(remaining, cut)
        hKeep == {i \in 1..Len(head) : head[i] \notin Whitespace}
        tKeep == {i \in 1..Len(tail) : tail[i] \notin Whitespace}
    IN  SubSeq(head, Max(hKeep) + 1, Len(head)) \o SubSeq(tail, 1, Min(tKeep) - 1)

Texts == UNION {[1..n -> Alphabet] : n \in 0..MaxTextLen}

ChunkIdle ==
    /\ text = <<>>
    /\ maxLength = 1
    /\ remainingText = <<>>
    /\ chunks = <<>>
    /\ gaps = <<>>
    /\ chunkPc = "idle"

ChunkInit ==
    /\ text \in Texts
    /\ maxLength \in 1..MaxChunkLen
    /\ remainingText = text
    /\ chunks = <<>>
    /\ gaps = <<>>
    /\ chunkPc = "start"

\* if (text.length <= maxLength) return [text];
ChunkFits ==
    /\ chunkPc = "start"
    /\ Len(text) <= maxLength
    /\ chunks' = singleChunk(text)
    /\ chunkPc' = "done"
    /\ UNCHANGED <<text, maxLength, remainingText, gaps>>
    /\ UNCHANGED <<chatVars, handlerVars, historyVars, commandVars, requestVars>>

\* The text does not fit: the loop is entered with remainingText = text.
ChunkEnter ==
    /\ chunkPc = "start"
    /\ ~(Len(text) <= maxLength)
    /\ chunkPc' = "loop"
    /\ UNCHANGED <<text, maxLength, remainingText, chunks, gaps>>
    /\ UNCHANGED <<chatVars, handlerVars, historyVars, commandVars, requestVars>>

\* while (remainingText.length > 0) is false: return chunks.
ChunkExit ==
    /\ chunkPc = "loop"
    /\ ~(Len(remainingText) > 0)
    /\ chunkPc' = "done"
    /\ UNCHANGED <<text, maxLength, remainingText, chunks, gaps>>
    /\ UNCHANGED <<chatVars, handlerVars, historyVars, commandVars, requestVars>>

\* if (remainingText.length <= maxLength) { chunks.push(remainingText); break; }
ChunkLast ==
    /\ chunkPc = "loop"
    /\ Len(remainingText) > 0
    /\ Len(remainingText) <= maxLength
    /\ chunks' = Append(chunks, remainingText)
    /\ chunkPc' = "done"
    /\ UNCHANGED <<text, maxLength, remainingText, gaps>>
    /\ UNCHANGED <<chatVars, handlerVars, historyVars, commandVars, requestVars>>

\* One carving iteration: choose the cut, push the trimmed chunk unless it is
\* empty, and keep the trimmed rest.
ChunkCut ==
    /\ chunkPc = "loop"
    /\ Len(remainingText) > maxLength
    /\ LET cut   == chunkEnd(remainingText, maxLength)
           chunk == trim(substring(remainingText, 0, cut))
           rest  == restAfter(remainingText, cut)
       IN  /\ chunks' = IF Len(chunk) > 0 THEN Append(chunks, chunk) ELSE chunks
           /\ remainingText' = rest
           /\ gaps' = IF Len(chunk) > 0 /\ Len(rest) > 0
                      THEN Append(gaps, droppedAt(remainingText, cut))
                      ELSE gaps
    /\ UNCHANGED <<text, maxLength, chunkPc>>
    /\ UNCHANGED <<chatVars, handlerVars, historyVars, commandVars, requestVars>>

ChunkNext == ChunkFits \/ ChunkEnter \/ ChunkExit \/ ChunkLast \/ ChunkCut

-----------------------------------------------------------------------------
(* ChatService.sendChatRequest: the retry loop *)

\* const maxRetries = 9; // 10 total requests (1 initial + 9 retries)
maxRetries == 9

NoError == [error |-> "none", status |-> ""]

\* The model replies a successful response may carry: one that fits a message,
\* ones that chunkMessage splits in two and in three, and one of whitespace only
\* that is longer than a message (a truthy content, so the call returns it),
\* which chunkMessage splits into no chunk at all.
Contents ==
    {<<"o", "k">>,
     <<"a", ".", " ", "b", "b">>,
     <<"a", ".", " ", "b", "b", " ", "c", "c">>,
     <<" ", " ", " ", " ">>}

\* What one fetch can come to: it rejects (a transport error, or the abort of the
\* 30 s timer), or it resolves to a response: not ok (with a status), ok without
\* choices, ok with an empty content, ok with content.
TransportError == [kind |-> "throw", name |-> "Error", message |-> "Network error"]
AbortError     == [kind |-> "throw", name |-> "AbortError", message |-> "This operation was aborted"]
HttpError(st)  == [kind |-> "response", ok |-> FALSE, status |-> st, choices |-> <<>>]
Statuses       == {"429 Too Many Requests", "500 Internal Server Error"}
NoChoices      == [kind |-> "response", ok |-> TRUE, status |-> "200 OK", choices |-> <<>>]
Reply(c)       == [kind |-> "response", ok |-> TRUE, status |-> "200 OK", choices |-> <<c>>]

FailingOutcomes ==
    {TransportError, AbortError, NoChoices, Reply(<<>>)}
        \cup {HttpError(st) : st \in Statuses}

SuccessOutcomes == {Reply(c) : c \in Contents}

\* The backend's behaviour during one call: it fails in at most MaxFaultKinds
\* different ways, in any order and at any attempt.
FaultProfiles == {F \in SUBSET FailingOutcomes : Cardinality(F) <= MaxFaultKinds}

\* `Chat API error: ${response.status} ${response.statusText} - ${errorText}`
chatApiError(status) == [error |-> "Chat API error", status |-> status]

\* Error messages are records, so that any two can be compared.
errorMessage(m) == [error |-> m, status |-> ""]

\* An attempt that accepts an empty content as a reply.
attemptResultAcceptingEmpty(outcome) ==
    IF outcome.kind = "throw"
    THEN [ok |-> FALSE, error |-> errorMessage(outcome.message)]
    ELSE IF ~outcome.ok
    THEN [ok |-> FALSE, error |-> chatApiError(outcome.status)]
    ELSE IF Len(outcome.choices) = 0
    THEN [ok |-> FALSE, error |-> errorMessage("No choices in chat completion response")]
    ELSE [ok |-> TRUE, content |-> outcome.choices[1]]

\* The body of one attempt's try block: what the awaited fetch leads to, either
\* the content returned or the message of the error caught. The abort of the
\* 30 s timer is caught like any rejection of fetch, with the abort's message.
attemptResult(outcome) ==
    IF outcome.kind = "throw"
    THEN [ok |-> FALSE, error |-> errorMessage(outcome.message)]
    ELSE IF ~outcome.ok
    THEN [ok |-> FALSE, error |-> chatApiError(outcome.status)]
    ELSE IF Len(outcome.choices) = 0
    THEN [ok |-> FALSE, error |-> errorMessage("No choices in chat completion response")]
    ELSE IF outcome.choices[1] = <<>>
    THEN [ok |-> FALSE, error |-> errorMessage("No content in chat completion response")]
    ELSE [ok |-> TRUE, content |-> outcome.choices[1]]

\* A catch block that keeps the first error it saw.
keepFirstError(previous, error) == IF previous = NoError THEN error ELSE previous

\* lastError = error instanceof Error ? error : new Error(String(error));
recordError(previous, error) == error

\* A loop that gives up one attempt early.
isLastAttemptEarly(n) == n = maxRetries - 1

\* if (attempt === maxRetries) break;
isLastAttempt(n) == n = maxRetries

\* throw new Error(`Failed to get chat response after ${maxRetries + 1} attempts: ${lastError?.message}`)
exhaustedError(error) ==
    [prefix |-> "Failed to get chat response after", attempts |-> maxRetries + 1,
     suffix |-> "attempts", message |-> error]

\* The status events handed to onStatusUpdate. The calls of onStatusUpdate are
\* those of the ChatService that takes a status callback, the one
\* handleMessageCreate calls; the retry loop around them is the loop of the
\* ChatService without a callback.
thinkingEvent == [type |-> "thinking"]

\* An observer that is told {thinking} again at every retry.
retryingEventThinking(n, error) == [type |-> "thinking"]

\* The message a timed-out attempt is reported to the observer with.
timeoutMessage == errorMessage("Request timeout after 30000ms")

\* An event that carries the abort's own message.
statusErrorOfCaught(error) == error

\* The error text of a {retrying} event: the message of the error caught, and
\* the timeout's text when the attempt was aborted by the timer.
statusErrorOf(error) ==
    IF error = errorMessage(AbortError.message) THEN timeoutMessage ELSE error

retryingEvent(n, error) ==
    [type |-> "retrying", attempt |-> n + 1, maxAttempts |-> maxRetries + 1,
     error |-> statusErrorOf(error)]

ChatIdle ==
    /\ attempt = 0
    /\ lastError = NoError
    /\ fetchCalls = 0
    /\ events = <<>>
    /\ chatResult = NoError
    /\ chatPc = "idle"
    /\ backendFaults = {}
    /\ backendLog = <<>>

ChatInit ==
    /\ attempt = 0
    /\ lastError = NoError
    /\ fetchCalls = 0
    /\ events = <<>>
    /\ chatResult = NoError
    /\ chatPc = "start"
    /\ backendFaults \in FaultProfiles
    /\ backendLog = <<>>

\* The ChatService in use. handleMessageCreate passes a status callback to
\* sendChatRequest; the ChatService with the retry loop takes none and calls
\* none, the ChatService its caller and its tests are written for calls it.
ClientIdle == callsObserver = FALSE

ClientInit == callsObserver \in BOOLEAN

\* The call begins: the observer is told {thinking}, once, before the loop.
ChatBegin ==
    /\ chatPc = "start"
    /\ callsObserver
    /\ events' = Append(events, thinkingEvent)
    /\ chatPc' = "attempt"
    /\ UNCHANGED <<attempt, lastError, fetchCalls, chatResult, backendFaults, backendLog,
                   callsObserver, replies>>
    /\ UNCHANGED <<chunkVars, handlerVars, historyVars, commandVars, requestVars>>

\* for (attempt ...; attempt <= maxRetries; ...) { ... await fetch(url, ...) }
\* Without a status callback the call goes straight to its first fetch.
ChatFetch ==
    /\ chatPc = "attempt" \/ (chatPc = "start" /\ ~callsObserver)
    /\ attempt <= maxRetries
    /\ fetchCalls' = fetchCalls + 1
    /\ chatPc' = "inflight"
    /\ UNCHANGED <<attempt, lastError, events, chatResult, backendFaults, backendLog,
                   callsObserver, replies>>
    /\ UNCHANGED <<chunkVars, handlerVars, historyVars, commandVars, requestVars>>

\* The fetch ends in a response with content: return content.
ChatReturns ==
    /\ chatPc = "inflight"
    /\ \E outcome \in SuccessOutcomes \cup backendFaults :
        /\ attemptResult(outcome).ok
        /\ backendLog' = Append(backendLog, outcome)
        /\ chatResult' = [returned |-> attemptResult(outcome).content]
    /\ chatPc' = "returned"
    /\ UNCHANGED <<attempt, lastError, fetchCalls, events, backendFaults, callsObserver, replies>>
    /\ UNCHANGED <<chunkVars, handlerVars, historyVars, commandVars, requestVars>>

\* The attempt fails and attempts remain: the catch block records the error and
\* the loop goes on with attempt + 1.
ChatRetries ==
    /\ chatPc = "inflight"
    /\ ~callsObserver
    /\ ~isLastAttempt(attempt)
    /\ \E outcome \in SuccessOutcomes \cup backendFaults :
        /\ ~attemptResult(outcome).ok
        /\ backendLog' = Append(backendLog, outcome)
        /\ lastError' = recordError(lastError, attemptResult(outcome).error)
    /\ attempt' = attempt + 1
    /\ chatPc' = "attempt"
    /\ UNCHANGED <<fetchCalls, events, chatResult, backendFaults, callsObserver, replies>>
    /\ UNCHANGED <<chunkVars, handlerVars, historyVars, commandVars, requestVars>>

\* The same with a status callback: the observer is told {retrying} before the
\* loop goes on.
ChatRetriesObserved ==
    /\ chatPc = "inflight"
    /\ callsObserver
    /\ ~isLastAttempt(attempt)
    /\ \E outcome \in SuccessOutcomes \cup backendFaults :
        /\ ~attemptResult(outcome).ok
        /\ backendLog' = Append(backendLog, outcome)
        /\ lastError' = recordError(lastError, attemptResult(outcome).error)
    /\ events' = Append(events, retryingEvent(attempt, lastError'))
    /\ attempt' = attempt + 1
    /\ chatPc' = "attempt"
    /\ UNCHANGED <<fetchCalls, chatResult, backendFaults, callsObserver, replies>>
    /\ UNCHANGED <<chunkVars, handlerVars, historyVars, commandVars, requestVars>>

\* The last attempt fails: break, then throw the error naming the last failure.
ChatGivesUp ==
    /\ chatPc = "inflight"
    /\ isLastAttempt(attempt)
    /\ \E outcome \in SuccessOutcomes \cup backendFaults :
        /\ ~attemptResult(outcome).ok
        /\ backendLog' = Append(backendLog, outcome)
        /\ lastError' = recordError(lastError, attemptResult(outcome).error)
    /\ chatResult' = [thrown |-> exhaustedError(lastError')]
    /\ chatPc' = "thrown"
    /\ UNCHANGED <<attempt, fetchCalls, events, backendFaults, callsObserver, replies>>
    /\ UNCHANGED <<chunkVars, handlerVars, historyVars, commandVars, requestVars>>

ChatNext ==
    \/ ChatBegin
    \/ ChatFetch
    \/ ChatReturns
    \/ ChatRetries
    \/ ChatRetriesObserved
    \/ ChatGivesUp

-----------------------------------------------------------------------------
(* The messaging platform, as the bot sees it *)

\* The human participants, and the automated ones (the bot itself, another bot).
Humans == {"u1", "u2"}
BotId == "bot"
Bots == {BotId}
NoUser == "nobody"

\* Two threads and a channel that is not a thread.
Threads == {"t1", "t2"}
Channels == Threads \cup {"c0"}

\* message.channel.isThread()
isThread(channel) == channel \in Threads

\* Message contents. A user's message and a chunk of a reply are texts; the other
\* three are the fixed texts the handler posts.
Text(s) == [kind |-> "text", chars |-> s, attempt |-> 0, maxAttempts |-> 0, error |-> NoError]

\* '_Thinking..._'
Thinking == [kind |-> "thinking", chars |-> <<>>, attempt |-> 0, maxAttempts |-> 0, error |-> NoError]

\* `_Error, retrying (${status.attempt}/${status.maxAttempts})..._` + `\n_${status.error}_`
retryStatusText(status) ==
    [kind |-> "retrying", chars |-> <<>>, attempt |-> status.attempt,
     maxAttempts |-> status.maxAttempts, error |-> status.error]

\* A notice that carries the message of the error caught:
\* `Sorry, I encountered an error: ${message}`.
errorNoticeRaw ==
    [kind |-> "notice", chars |-> <<>>, attempt |-> 0, maxAttempts |-> 0,
     error |-> [error |-> "Network error", status |-> ""]]

\* 'Sorry, I encountered an error while processing your message. Please try again later.'
errorNotice == [kind |-> "notice", chars |-> <<>>, attempt |-> 0, maxAttempts |-> 0, error |-> NoError]

\* !msg.content
isEmptyContent(content) == content.kind = "text" /\ content.chars = <<>>

\* What users write.
UserTexts == {<<>>, <<"h", "i">>}

\* What thread.fetchStarterMessage() can come to: it throws, it finds no message,
\* or it returns the starter message, with or without interaction metadata.
StarterThrows   == [threw |-> TRUE,  found |-> FALSE, user |-> NoUser]
StarterMissing  == [threw |-> FALSE, found |-> FALSE, user |-> NoUser]
StarterPlain    == [threw |-> FALSE, found |-> TRUE,  user |-> NoUser]
StarterBy(u)    == [threw |-> FALSE, found |-> TRUE,  user |-> u]

-----------------------------------------------------------------------------
(* ThreadService *)

\* An owner resolution that takes the author of the newest message for the
\* owner.
getThreadAuthorIdLastAuthor(fetched) == handlers[Len(handlers)].msg.author

\* An owner resolution that falls back on the owner an earlier check was given
\* when its own lookup gives none.
getThreadAuthorIdCached(fetched) ==
    LET seen == {handlers[h].starterSeen.user : h \in 1..Len(handlers)} \ {NoUser}
    IN  IF fetched.user # NoUser THEN fetched.user
        ELSE IF seen # {} THEN CHOOSE u \in seen : TRUE
        ELSE NoUser

\* getThreadAuthorId(thread), given what fetchStarterMessage came to: the id of
\* the interaction's user, or null (NoUser).
getThreadAuthorId(fetched) ==
    IF fetched.threw THEN NoUser
    ELSE IF ~fetched.found THEN NoUser
    ELSE IF fetched.user = NoUser THEN NoUser
    ELSE fetched.user

\* A check that forgets to compare the author with the thread's owner.
authorMatchesAnyOwner(message, authorId) ==
    IF authorId = NoUser THEN FALSE ELSE TRUE

\* The end of shouldProcessMessage: `if (!authorId) return false;
\* return message.author.id === authorId;`
authorMatches(message, authorId) ==
    IF authorId = NoUser THEN FALSE ELSE message.author = authorId

\* The synchronous start of shouldProcessMessage: FALSE when the message is
\* rejected before the starter message is looked up.
passesQuickChecks(message) ==
    IF message.bot THEN FALSE
    ELSE IF ~isThread(message.channel) THEN FALSE
    ELSE TRUE

\* `thread.messages.fetch({ limit })`: the newest `limit` messages of the thread,
\* newest first.
fetchMessages(messages, limit) ==
    LET n == Min({Len(messages), limit})
    IN  [i \in 1..n |-> messages[Len(messages) + 1 - i]]

\* The limits of the two fetches: of buildConversationHistory, and of the
\* handler's look at the recent messages.
historyLimit == 50
recentLimit == 10

\* A sort that puts a message after the messages of the same time that
\* followed it in the input.
RECURSIVE insertByTimestampUnstable(_, _)
insertByTimestampUnstable(sorted, msg) ==
    IF sorted = <<>> THEN <<msg>>
    ELSE IF msg.createdTimestamp < Head(sorted).createdTimestamp THEN <<msg>> \o sorted
    ELSE <<Head(sorted)>> \o insertByTimestampUnstable(Tail(sorted), msg)

\* `.sort((a, b) => a.createdTimestamp - b.createdTimestamp)`: Array.prototype.sort
\* is stable, so a message stays before the messages of the same time that
\* followed it in the input.
RECURSIVE insertByTimestamp(_, _)
insertByTimestamp(sorted, msg) ==
    IF sorted = <<>> THEN <<msg>>
    ELSE IF msg.createdTimestamp <= Head(sorted).createdTimestamp THEN <<msg>> \o sorted
    ELSE <<Head(sorted)>> \o insertByTimestamp(Tail(sorted), msg)

RECURSIVE sortByCreatedTimestamp(_)
sortByCreatedTimestamp(messages) ==
    IF messages = <<>> THEN <<>>
    ELSE insertByTimestamp(sortByCreatedTimestamp(Tail(messages)), Head(messages))

\* The loop of buildConversationHistory over the sorted messages: system
\* messages and messages without content are skipped, a bot's message is
\* 'assistant', any other message is 'user'.
\* A loop that lets system messages through.
skipsOnlyEmpty(msg) == isEmptyContent(msg.content)

\* `if (!msg.content || msg.system) continue;`
skipsMessage(msg) == isEmptyContent(msg.content) \/ msg.system

\* The entry pushed for a message that is not skipped.
historyEntry(msg) ==
    IF msg.bot
    THEN [role |-> "assistant", content |-> msg.content]
    ELSE [role |-> "user", content |-> msg.content]

RECURSIVE historyOf(_)
historyOf(sortedMessages) ==
    IF sortedMessages = <<>> THEN <<>>
    ELSE LET msg  == Head(sortedMessages)
             rest == historyOf(Tail(sortedMessages))
         IN  IF skipsMessage(msg) THEN rest
             ELSE <<historyEntry(msg)>> \o rest

\* buildConversationHistory, given what the fetch returned.
buildConversationHistory(messages) == historyOf(sortByCreatedTimestamp(messages))

-----------------------------------------------------------------------------
(* buildConversationHistory, step by step, on any fetched list *)

\* What a fetch can return: up to MaxFetched messages in any order of creation
\* time (equal times included); each is a person's message, a bot's message, a
\* system message or a message without content. The i-th message returned has
\* id i and, unless it is empty, the text "m" repeated i times.
MessageKinds == {"user", "bot", "system", "empty"}

RECURSIVE Repeat(_, _)
Repeat(c, n) == IF n = 0 THEN <<>> ELSE <<c>> \o Repeat(c, n - 1)

FetchedMessage(i, time, kind) ==
    [id |-> i, createdTimestamp |-> time,
     author |-> IF kind = "bot" THEN BotId ELSE "u1",
     bot |-> kind = "bot",
     content |-> Text(IF kind = "empty" THEN <<>> ELSE Repeat("m", i)),
     system |-> kind = "system"]

FetchResults ==
    UNION {{[i \in 1..n |-> FetchedMessage(i, times[i], kinds[i])] :
                times \in [1..n -> 1..MaxTimestamp], kinds \in [1..n -> MessageKinds]} :
           n \in 0..MaxFetched}

HistoryIdle ==
    /\ histFetched = <<>>
    /\ histSorted = <<>>
    /\ histNext = 1
    /\ histResult = <<>>
    /\ histPc = "idle"

\* `const messages = await thread.messages.fetch({ limit })`
HistoryInit ==
    /\ histFetched \in FetchResults
    /\ histSorted = <<>>
    /\ histNext = 1
    /\ histResult = <<>>
    /\ histPc = "fetched"

\* `const sortedMessages = Array.from(messages.values()).sort(...)`
HistorySort ==
    /\ histPc = "fetched"
    /\ histSorted' = sortByCreatedTimestamp(histFetched)
    /\ histPc' = "loop"
    /\ UNCHANGED <<histFetched, histNext, histResult>>
    /\ UNCHANGED <<chunkVars, chatVars, handlerVars, commandVars, requestVars>>

\* One pass of `for (const msg of sortedMessages)`: the message is skipped.
HistorySkip ==
    /\ histPc = "loop"
    /\ histNext <= Len(histSorted)
    /\ skipsMessage(histSorted[histNext])
    /\ histNext' = histNext + 1
    /\ UNCHANGED <<histFetched, histSorted, histResult, histPc>>
    /\ UNCHANGED <<chunkVars, chatVars, handlerVars, commandVars, requestVars>>

\* One pass of the loop: the message is pushed with its role.
HistoryPush ==
    /\ histPc = "loop"
    /\ histNext <= Len(histSorted)
    /\ ~skipsMessage(histSorted[histNext])
    /\ histResult' = Append(histResult, historyEntry(histSorted[histNext]))
    /\ histNext' = histNext + 1
    /\ UNCHANGED <<histFetched, histSorted, histPc>>
    /\ UNCHANGED <<chunkVars, chatVars, handlerVars, commandVars, requestVars>>

\* `return conversationHistory`
HistoryReturn ==
    /\ histPc = "loop"
    /\ histNext > Len(histSorted)
    /\ histPc' = "returned"
    /\ UNCHANGED <<histFetched, histSorted, histNext, histResult>>
    /\ UNCHANGED <<chunkVars, chatVars, handlerVars, commandVars, requestVars>>

HistoryNext ==
    \/ HistorySort
    \/ HistorySkip
    \/ HistoryPush
    \/ HistoryReturn

-----------------------------------------------------------------------------
(* The messages of a request of sendChatRequest *)

\* this.systemPrompt: 'Be concise, conversational, and friendly, responding in
\* at most a couple of sentences.'
systemPrompt == Text(<<"Be concise, conversational, and friendly">>)

\* threadNamePrompt: 'Based on the following user message, generate a concise
\* thread name ...'
threadNamePrompt == Text(<<"Based on the following user message, generate a concise thread name">>)

\* A call that prepends the system prompt whatever the list begins with.
messagesWithSystemAlways(messages) ==
    <<[role |-> "system", content |-> systemPrompt]>> \o messages

\* `messages[0]?.role === 'system' ? messages
\*     : [{ role: 'system', content: this.systemPrompt }, ...messages]`
messagesWithSystem(messages) ==
    IF Len(messages) > 0 /\ messages[1].role = "system" THEN messages
    ELSE <<[role |-> "system", content |-> systemPrompt]>> \o messages

-----------------------------------------------------------------------------
(* chunkMessage as a function, for the handler *)

RECURSIVE chunkLoop(_, _, _)
chunkLoop(remaining, maxLen, acc) ==
    IF ~(Len(remaining) > 0) THEN acc
    ELSE IF Len(remaining) <= maxLen THEN Append(acc, remaining)
    ELSE LET cut   == chunkEnd(remaining, maxLen)
             chunk == trim(substring(remaining, 0, cut))
         IN  chunkLoop(restAfter(remaining, cut), maxLen,
                       IF Len(chunk) > 0 THEN Append(acc, chunk) ELSE acc)

chunkMessage(s, maxLen) ==
    IF Len(s) <= maxLen THEN singleChunk(s) ELSE chunkLoop(s, maxLen, <<>>)

-----------------------------------------------------------------------------
(* handleMessageCreate: one handler per inbound message event *)

\* What a handler holds before it has anything.
NoMessageId == 0

\* The ways the backend fails the handler's requests, and the names the
\* background naming request can come to ('Chat' is its fallback).
HandlerFaults == {TransportError}
ThreadNames == {"Greeting"}

\* The contents the backend can answer a handler's request with: none where no
\* handler runs; any of Contents where a single event is handled; where two
\* events are handled concurrently, the contents of one or two chunks.
ShortContents == {c \in Contents : Len(chunkMessage(c, MessageLimit)) \in 1..2}

RepliesIdle == replies = {}

RepliesInit == replies = Contents

RepliesInitShort == replies = ShortContents

HandlerReplies == {Reply(c) : c \in replies}

NewHandler(message) ==
    [msg |-> message, pc |-> "check", eligible |-> FALSE, starterSeen |-> StarterMissing,
     fetched |-> <<>>, history |-> <<>>, statusMessage |-> NoMessageId, attempt |-> 0,
     requests |-> 0, lastError |-> NoError, response |-> <<>>, chunks |-> <<>>,
     next |-> 1, caught |-> FALSE, thrownAt |-> {}, did |-> {}, lookups |-> 0, authorId |-> NoUser,
     request |-> <<>>, nameTask |-> "none"]

HandlerIdle ==
    /\ starter = [t \in Threads |-> StarterMissing]
    /\ store = [t \in Threads |-> <<>>]
    /\ nextId = 1
    /\ handlers = <<>>
    /\ outbox = <<>>
    /\ naming = {}
    /\ threadName = [t \in Threads |-> "Chat"]
    /\ eventsLeft = 0
    /\ faultsLeft = 0
    /\ postFaultsLeft = 0

\* Thread t1 was started by /chat, invoked by u1. Thread t2 is a thread that was
\* not started by an interaction.
HandlerInit ==
    /\ starter = [t \in Threads |-> IF t = "t1" THEN StarterBy("u1") ELSE StarterPlain]
    /\ store = [t \in Threads |-> <<>>]
    /\ nextId = 1
    /\ handlers = <<>>
    /\ outbox = <<>>
    /\ naming = {}
    /\ threadName = [t \in Threads |-> "Chat"]
    /\ eventsLeft = MaxEvents
    /\ faultsLeft = MaxFaults
    /\ postFaultsLeft = MaxPostFaults

\* One event, and a backend that can fail every attempt of its handler; the
\* platform either fails some sends and edits, or none.
HandlerInitOne ==
    /\ starter = [t \in Threads |-> IF t = "t1" THEN StarterBy("u1") ELSE StarterPlain]
    /\ store = [t \in Threads |-> <<>>]
    /\ nextId = 1
    /\ handlers = <<>>
    /\ outbox = <<>>
    /\ naming = {}
    /\ threadName = [t \in Threads |-> "Chat"]
    /\ eventsLeft = 1
    /\ faultsLeft = maxRetries + 1
    /\ postFaultsLeft \in {0, MaxPostFaults}

Running == {h \in 1..Len(handlers) : handlers[h].pc # "done"}

Goto(h, label) == [handlers EXCEPT ![h].pc = label]

\* The bot posts `content` in thread t: a new message, authored by the bot.
BotMessage(id, content) ==
    [id |-> id, createdTimestamp |-> id, author |-> BotId, bot |-> TRUE,
     content |-> content, system |-> FALSE]

Posted(h, t, content) ==
    Append(outbox, [op |-> "send", thread |-> t, target |-> nextId, content |-> content, by |-> h])

Edited(h, t, id, content) ==
    Append(outbox, [op |-> "edit", thread |-> t, target |-> id, content |-> content, by |-> h])

\* The thread's messages with the content of message `id` replaced.
WithContent(messages, id, content) ==
    [i \in 1..Len(messages) |->
        IF messages[i].id = id THEN [messages[i] EXCEPT !.content = content]
        ELSE messages[i]]

\* The messages that arrive: in a thread, a person's message with or without
\* content, written by them or by the platform in their name (a system
\* message); outside a thread, and from a bot, an ordinary message.
Inbound ==
    [author : Humans, channel : Threads, chars : UserTexts, system : BOOLEAN]
    \cup [author : Humans, channel : {"c0"}, chars : {<<"h", "i">>}, system : {FALSE}]
    \cup [author : Bots, channel : Channels, chars : {<<"h", "i">>}, system : {FALSE}]

\* A participant writes a message; the gateway delivers the messageCreate event
\* to a new handler. Messages are created one after another: the id of a
\* message is also the time of its creation.
Receive ==
    /\ eventsLeft > 0
    /\ eventsLeft' = eventsLeft - 1
    /\ \E in \in Inbound :
        LET message == [id |-> nextId, author |-> in.author, bot |-> in.author \in Bots,
                        channel |-> in.channel, content |-> Text(in.chars),
                        system |-> in.system]
        IN  /\ handlers' = Append(handlers, NewHandler(message))
            /\ store' = IF isThread(in.channel)
                        THEN [store EXCEPT ![in.channel] = Append(@,
                                [id |-> nextId, createdTimestamp |-> nextId,
                                 author |-> in.author, bot |-> in.author \in Bots,
                                 content |-> Text(in.chars), system |-> in.system])]
                        ELSE store
    /\ nextId' = nextId + 1
    /\ UNCHANGED <<faultsLeft, postFaultsLeft, starter, outbox, naming, threadName>>
    /\ UNCHANGED <<chunkVars, chatVars, historyVars, commandVars, requestVars>>

\* Where control goes when shouldProcessMessage has answered: on, or out of the
\* handler (`if (!(await threadService.shouldProcessMessage(...))) return;`).
afterCheckAlways(ok) == "recent"

\* A handler that posts the indicator as soon as the message is accepted.
afterCheckIndicatorFirst(ok) == IF ok THEN "indicate" ELSE "done"

afterCheck(ok) == IF ok THEN "recent" ELSE "done"

\* Where an exception thrown at a position of the handler is caught: in the
\* try block, by the catch block (which posts the notice); in the catch block's
\* own try, by the inner catch (which only logs).
catchTargetSilent(at) == "done"

\* A catch block that starts a failed fetch of the thread's messages again.
catchTargetRetry(at) ==
    IF at = "notice" THEN "done"
    ELSE IF at \in {"recent", "build"} THEN at
    ELSE "notice"

catchTargetUnguarded(at) == IF at = "notice" THEN "rejected" ELSE "notice"

catchTarget(at) == IF at = "notice" THEN "done" ELSE "notice"

\* The handler's platform call `op` throws.
Throw(h, op) ==
    [handlers EXCEPT ![h].pc = catchTarget(handlers[h].pc),
                     ![h].caught = TRUE,
                     ![h].thrownAt = @ \cup {handlers[h].pc},
                     ![h].did = @ \cup {op}]

\* The message a handler's edits go to: another handler's newest message in the
\* thread, were the indicator shared.
latestBotMessage(h) ==
    LET messages == store[handlers[h].msg.channel]
        own == {i \in 1..Len(messages) : messages[i].bot}
    IN  IF own = {} THEN handlers[h].statusMessage ELSE messages[Max(own)].id

\* The message a handler's edits go to: `statusMessage`, a local of the call.
statusMessageOf(h) == handlers[h].statusMessage

\* An observer that edits the indicator on every event it is told.
observerEditsAnyEvent(status) == TRUE

\* The observer's test: `status.type === 'retrying' && status.attempt &&
\* status.maxAttempts` (0 and undefined are falsy).
observerEdits(status) ==
    IF status.type # "retrying" THEN FALSE
    ELSE status.attempt # 0 /\ status.maxAttempts # 0

\* The text the observer edits the indicator to. An event without attempt and
\* error would leave the indicator's first text in place.
statusTextOf(status) ==
    IF status.type = "retrying" THEN retryStatusText(status) ELSE Thinking

\* An observer whose failure is left to the handler's catch block.
observerCatchTargetRethrows(at) == catchTarget(at)

\* Where control goes when the observer's edit throws: the observer's own
\* `catch (error) { console.error(...) }` ends the observer normally, and the
\* completion call goes on with its next attempt.
observerCatchTarget(at) == "attempt"

\* `for (let i = 1; ...)`: the first chunk sent as a new message is the second
\* chunk (sequences are counted from 1 here).
firstSentIndex(cs) == 2

\* shouldProcessMessage, up to its await: bot messages and messages outside a
\* thread are rejected at once (the handler returns).
HandlerCheck(h) ==
    /\ handlers[h].pc = "check"
    /\ handlers' = [handlers EXCEPT
            ![h].pc = IF passesQuickChecks(handlers[h].msg)
                      THEN "starter" ELSE afterCheck(FALSE)]
    /\ UNCHANGED <<eventsLeft, faultsLeft, postFaultsLeft, starter, store, nextId, outbox, naming, threadName>>
    /\ UNCHANGED <<chunkVars, chatVars, historyVars, commandVars, requestVars>>

\* shouldProcessMessage, from `await this.getThreadAuthorId(message.channel)` on.
HandlerResolveOwner(h) ==
    /\ handlers[h].pc = "starter"
    /\ \E fetched \in {starter[handlers[h].msg.channel], StarterMissing, StarterThrows} :
        LET ok == authorMatches(handlers[h].msg, getThreadAuthorId(fetched))
        IN  handlers' = [handlers EXCEPT
                ![h].starterSeen = fetched,
                ![h].lookups = @ + 1,
                ![h].authorId = getThreadAuthorId(fetched),
                ![h].eligible = ok,
                ![h].pc = afterCheck(ok)]
    /\ UNCHANGED <<eventsLeft, faultsLeft, postFaultsLeft, starter, store, nextId, outbox, naming, threadName>>
    /\ UNCHANGED <<chunkVars, chatVars, historyVars, commandVars, requestVars>>

\* `if (!message.channel.isThread()) return;`, then
\* `thread.messages.fetch({ limit: 10 })` and the first-user-message test; the
\* thread's name is generated in the background when the test passes.
HandlerFetchRecent(h) ==
    /\ handlers[h].pc = "recent"
    /\ IF ~isThread(handlers[h].msg.channel)
       THEN /\ handlers' = Goto(h, "done")
            /\ UNCHANGED naming
       ELSE \/ /\ handlers' = Throw(h, "fetchRecent")
               /\ UNCHANGED naming
            \/ LET messages == fetchMessages(store[handlers[h].msg.channel], recentLimit)
                   userMessages == SelectSeq(messages,
                                     LAMBDA m : ~m.bot /\ ~isEmptyContent(m.content))
                   first == Len(userMessages) = 1
                                /\ userMessages[1].id = handlers[h].msg.id
               IN  /\ naming' = IF first THEN naming \cup {h} ELSE naming
                   /\ handlers' = [handlers EXCEPT
                        ![h].did = @ \cup (IF first THEN {"fetchRecent", "generateThreadName"}
                                           ELSE {"fetchRecent"}),
                        ![h].nameTask = IF first THEN "started" ELSE @,
                        ![h].pc = "build"]
    /\ UNCHANGED <<eventsLeft, faultsLeft, postFaultsLeft, starter, store, nextId, outbox, threadName>>
    /\ UNCHANGED <<chunkVars, chatVars, historyVars, commandVars, requestVars>>

\* `await threadService.buildConversationHistory(thread, client)`: the thread's
\* messages are fetched (the newest 50; the model's threads stay shorter) and
\* the history is built from them.
HandlerBuildHistory(h) ==
    /\ handlers[h].pc = "build"
    /\ \/ handlers' = Throw(h, "buildHistory")
       \/ handlers' = [handlers EXCEPT
            ![h].fetched = fetchMessages(store[handlers[h].msg.channel], historyLimit),
            ![h].history = buildConversationHistory(
                                fetchMessages(store[handlers[h].msg.channel], historyLimit)),
            ![h].did = @ \cup {"buildHistory"},
            ![h].pc = "indicate"]
    /\ UNCHANGED <<eventsLeft, faultsLeft, postFaultsLeft, starter, store, nextId, outbox, naming, threadName>>
    /\ UNCHANGED <<chunkVars, chatVars, historyVars, commandVars, requestVars>>

\* `let statusMessage = await thread.send('_Thinking..._')`
HandlerPostIndicator(h) ==
    /\ handlers[h].pc = "indicate"
    /\ \/ /\ postFaultsLeft > 0
          /\ postFaultsLeft' = postFaultsLeft - 1
          /\ handlers' = Throw(h, "send")
          /\ UNCHANGED <<store, nextId, outbox>>
       \/ LET t == handlers[h].msg.channel
          IN  /\ UNCHANGED postFaultsLeft
              /\ store' = [store EXCEPT ![t] = Append(@, BotMessage(nextId, Thinking))]
              /\ outbox' = Posted(h, t, Thinking)
              /\ nextId' = nextId + 1
              /\ handlers' = [handlers EXCEPT ![h].statusMessage = nextId,
                                              ![h].did = @ \cup {"send"},
                                              ![h].pc = "attempt"]
    /\ UNCHANGED <<eventsLeft, faultsLeft, starter, naming, threadName>>
    /\ UNCHANGED <<chunkVars, chatVars, historyVars, commandVars, requestVars>>

\* Before its first attempt the call with a status callback tells the observer
\* {thinking}; the observer edits the indicator only on the events it tests for.
HandlerToldThinking(h) ==
    LET t == handlers[h].msg.channel
    IN  IF callsObserver /\ handlers[h].requests = 0 /\ observerEdits(thinkingEvent)
        THEN /\ store' = [store EXCEPT ![t] =
                    WithContent(@, statusMessageOf(h), statusTextOf(thinkingEvent))]
             /\ outbox' = Edited(h, t, statusMessageOf(h), statusTextOf(thinkingEvent))
        ELSE UNCHANGED <<store, outbox>>

\* sendChatRequest inside the handler, one attempt that ends the call: with
\* content (the call returns, and the handler goes on to
\* `const chunks = chunkMessage(response)` and issues the edit of the
\* indicator), or with the failure of the last attempt (the call throws).
HandlerAttempt(h) ==
    /\ handlers[h].pc = "attempt"
    /\ handlers[h].attempt <= maxRetries
    /\ HandlerToldThinking(h)
    /\ \E outcome \in HandlerReplies \cup HandlerFaults :
        LET res == attemptResult(outcome)
        IN  IF res.ok
            THEN /\ handlers' = [handlers EXCEPT ![h].response = res.content,
                        ![h].chunks = chunkMessage(res.content, MessageLimit),
                        ![h].request = messagesWithSystem(handlers[h].history),
                                                 ![h].requests = @ + 1,
                                                 ![h].did = @ \cup {"complete"},
                                                 ![h].pc = "deliver"]
                 /\ UNCHANGED faultsLeft
            ELSE /\ isLastAttempt(handlers[h].attempt)
                 /\ faultsLeft > 0
                 /\ faultsLeft' = faultsLeft - 1
                 /\ handlers' = [handlers EXCEPT
                        ![h].lastError = recordError(handlers[h].lastError, res.error),
                        ![h].request = messagesWithSystem(handlers[h].history),
                        ![h].requests = @ + 1,
                        ![h].did = @ \cup {"complete"},
                        ![h].caught = TRUE,
                        ![h].thrownAt = @ \cup {"attempt"},
                        ![h].pc = catchTarget("attempt")]
    /\ UNCHANGED <<eventsLeft, postFaultsLeft, starter, nextId, naming, threadName>>
    /\ UNCHANGED <<chunkVars, chatVars, historyVars, commandVars, requestVars>>

\* sendChatRequest inside the handler, one attempt that fails with attempts
\* left: the catch block records the error and the loop goes on with the next
\* attempt. Nothing is posted or edited.
HandlerAttemptFails(h) ==
    /\ handlers[h].pc = "attempt"
    /\ ~callsObserver
    /\ handlers[h].attempt <= maxRetries
    /\ ~isLastAttempt(handlers[h].attempt)
    /\ \E outcome \in HandlerReplies \cup HandlerFaults :
        LET res == attemptResult(outcome)
        IN  /\ ~res.ok
            /\ faultsLeft > 0
            /\ faultsLeft' = faultsLeft - 1
            /\ handlers' = [handlers EXCEPT
                    ![h].lastError = recordError(handlers[h].lastError, res.error),
                    ![h].request = messagesWithSystem(handlers[h].history),
                    ![h].requests = @ + 1,
                    ![h].attempt = @ + 1,
                    ![h].did = @ \cup {"complete"},
                    ![h].caught = FALSE,
                    ![h].pc = "attempt"]
    /\ UNCHANGED <<eventsLeft, postFaultsLeft, starter, store, nextId, outbox, naming, threadName>>
    /\ UNCHANGED <<chunkVars, chatVars, historyVars, commandVars, requestVars>>

\* The same with a status callback: the catch block records the error and the
\* call tells the observer {retrying} before it goes on with the next attempt.
HandlerAttemptRetries(h) ==
    /\ handlers[h].pc = "attempt"
    /\ callsObserver
    /\ handlers[h].attempt <= maxRetries
    /\ ~isLastAttempt(handlers[h].attempt)
    /\ HandlerToldThinking(h)
    /\ \E outcome \in HandlerReplies \cup HandlerFaults :
        LET res == attemptResult(outcome)
        IN  /\ ~res.ok
            /\ faultsLeft > 0
            /\ faultsLeft' = faultsLeft - 1
            /\ handlers' = [handlers EXCEPT
                    ![h].lastError = recordError(handlers[h].lastError, res.error),
                    ![h].request = messagesWithSystem(handlers[h].history),
                    ![h].requests = @ + 1,
                    ![h].did = @ \cup {"complete"},
                    ![h].caught = FALSE,
                    ![h].pc = "status"]
    /\ UNCHANGED <<eventsLeft, postFaultsLeft, starter, nextId, naming, threadName>>
    /\ UNCHANGED <<chunkVars, chatVars, historyVars, commandVars, requestVars>>

\* The status observer: on {retrying} the indicator is edited; a failure of the
\* edit is caught. The loop then goes on with the next attempt.
HandlerShowRetry(h) ==
    /\ handlers[h].pc = "status"
    /\ LET t      == handlers[h].msg.channel
           status == retryingEvent(handlers[h].attempt, handlers[h].lastError)
       IN  IF observerEdits(status)
           THEN \/ /\ UNCHANGED postFaultsLeft
                   /\ store' = [store EXCEPT ![t] =
                         WithContent(@, statusMessageOf(h), statusTextOf(status))]
                   /\ outbox' = Edited(h, t, statusMessageOf(h), statusTextOf(status))
                \/ /\ postFaultsLeft > 0
                   /\ postFaultsLeft' = postFaultsLeft - 1
                   /\ UNCHANGED <<store, outbox>>
           ELSE UNCHANGED <<postFaultsLeft, store, outbox>>
    /\ handlers' = [handlers EXCEPT ![h].attempt = @ + 1,
                                    ![h].did = @ \cup {"edit"},
                                    ![h].thrownAt = IF postFaultsLeft' < postFaultsLeft
                                                    THEN @ \cup {"status"} ELSE @,
                                    ![h].pc = IF postFaultsLeft' < postFaultsLeft
                                              THEN observerCatchTarget("status")
                                              ELSE "attempt"]
    /\ UNCHANGED <<eventsLeft, faultsLeft, starter, nextId, naming, threadName>>
    /\ UNCHANGED <<chunkVars, chatVars, historyVars, commandVars, requestVars>>

\* `if (chunks.length > 0) await statusMessage.edit(chunks[0] || '')` settles.
HandlerDeliverFirst(h) ==
    /\ handlers[h].pc = "deliver"
    /\ LET t  == handlers[h].msg.channel
           cs == handlers[h].chunks
       IN  \/ /\ postFaultsLeft > 0
              /\ postFaultsLeft' = postFaultsLeft - 1
              /\ Len(cs) > 0
              /\ handlers' = Throw(h, "edit")
              /\ UNCHANGED <<store, outbox>>
           \/ /\ UNCHANGED postFaultsLeft
              /\ handlers' = [handlers EXCEPT
                    ![h].next = firstSentIndex(cs),
                    ![h].did = @ \cup (IF Len(cs) > 0 THEN {"edit"} ELSE {}),
                    ![h].pc = IF firstSentIndex(cs) <= Len(cs) THEN "chunks" ELSE "done"]
              /\ IF Len(cs) > 0
                 THEN /\ store' = [store EXCEPT ![t] =
                            WithContent(@, statusMessageOf(h), Text(cs[1]))]
                      /\ outbox' = Edited(h, t, statusMessageOf(h), Text(cs[1]))
                 ELSE UNCHANGED <<store, outbox>>
    /\ UNCHANGED <<eventsLeft, faultsLeft, starter, nextId, naming, threadName>>
    /\ UNCHANGED <<chunkVars, chatVars, historyVars, commandVars, requestVars>>

\* `for (let i = 1; i < chunks.length; i++) await thread.send(chunks[i] || '')`
HandlerSendChunk(h) ==
    /\ handlers[h].pc = "chunks"
    /\ LET t == handlers[h].msg.channel
           i == handlers[h].next
       IN  \/ /\ postFaultsLeft > 0
              /\ postFaultsLeft' = postFaultsLeft - 1
              /\ handlers' = Throw(h, "send")
              /\ UNCHANGED <<store, nextId, outbox>>
           \/ /\ UNCHANGED postFaultsLeft
              /\ store' = [store EXCEPT ![t] =
                    Append(@, BotMessage(nextId, Text(handlers[h].chunks[i])))]
              /\ outbox' = Posted(h, t, Text(handlers[h].chunks[i]))
              /\ nextId' = nextId + 1
              /\ handlers' = [handlers EXCEPT ![h].next = i + 1,
                    ![h].pc = IF i + 1 > Len(handlers[h].chunks) THEN "done" ELSE "chunks"]
    /\ UNCHANGED <<eventsLeft, faultsLeft, starter, naming, threadName>>
    /\ UNCHANGED <<chunkVars, chatVars, historyVars, commandVars, requestVars>>

\* The catch block: the error notice is sent to the thread; a failure to send it
\* is caught and logged.
HandlerNotice(h) ==
    /\ handlers[h].pc = "notice"
    /\ LET t == handlers[h].msg.channel
       IN  \/ /\ isThread(t)
              /\ UNCHANGED postFaultsLeft
              /\ store' = [store EXCEPT ![t] = Append(@, BotMessage(nextId, errorNotice))]
              /\ outbox' = Posted(h, t, errorNotice)
              /\ nextId' = nextId + 1
              /\ handlers' = [handlers EXCEPT ![h].did = @ \cup {"send"}, ![h].pc = "done"]
           \/ /\ ~isThread(t)
              /\ handlers' = Goto(h, "done")
              /\ UNCHANGED <<postFaultsLeft, store, nextId, outbox>>
           \/ /\ postFaultsLeft > 0
              /\ postFaultsLeft' = postFaultsLeft - 1
              /\ isThread(t)
              /\ handlers' = Throw(h, "send")
              /\ UNCHANGED <<store, nextId, outbox>>
    /\ UNCHANGED <<eventsLeft, faultsLeft, starter, naming, threadName>>
    /\ UNCHANGED <<chunkVars, chatVars, historyVars, commandVars, requestVars>>

\* A background task whose failure is thrown into the handler.
namingCatchTargetRethrows(at) == catchTarget(at)

\* Where the handler is after the background task failed: where it was. The
\* task's promise has its own `.catch`, and `thread.setName` its own try/catch;
\* both only log.
namingCatchTarget(at) == at

\* The background task started for a first user message: generateThreadName
\* resolves to a name (one made of the reply, or its fallback 'Chat') and
\* thread.setName sets it; or generateThreadName rejects or setName throws, and
\* the failure is logged.
HandlerNameThread(h) ==
    /\ h \in naming
    /\ naming' = naming \ {h}
    /\ \/ \E name \in ThreadNames \cup {"Chat"} :
            /\ threadName' = [threadName EXCEPT ![handlers[h].msg.channel] = name]
            /\ handlers' = [handlers EXCEPT ![h].nameTask = "set"]
       \/ /\ UNCHANGED threadName
          /\ handlers' = [handlers EXCEPT ![h].nameTask = "failed",
                                          ![h].pc = namingCatchTarget(handlers[h].pc)]
    /\ UNCHANGED <<eventsLeft, faultsLeft, postFaultsLeft, starter, store, nextId, outbox>>
    /\ UNCHANGED <<chunkVars, chatVars, historyVars, commandVars, requestVars>>

HandlerNext ==
    \/ Receive
    \/ \E h \in 1..Len(handlers) : HandlerCheck(h)
    \/ \E h \in 1..Len(handlers) : HandlerResolveOwner(h)
    \/ \E h \in 1..Len(handlers) : HandlerFetchRecent(h)
    \/ \E h \in 1..Len(handlers) : HandlerBuildHistory(h)
    \/ \E h \in 1..Len(handlers) : HandlerPostIndicator(h)
    \/ \E h \in 1..Len(handlers) : HandlerAttempt(h)
    \/ \E h \in 1..Len(handlers) : HandlerAttemptFails(h)
    \/ \E h \in 1..Len(handlers) : HandlerAttemptRetries(h)
    \/ \E h \in 1..Len(handlers) : HandlerShowRetry(h)
    \/ \E h \in 1..Len(handlers) : HandlerDeliverFirst(h)
    \/ \E h \in 1..Len(handlers) : HandlerSendChunk(h)
    \/ \E h \in 1..Len(handlers) : HandlerNotice(h)
    \/ \E h \in 1..Len(handlers) : HandlerNameThread(h)

-----------------------------------------------------------------------------
(* The /chat command *)

\* Texts of the command, as sequences of characters. The speech balloon the
\* initial reply begins with is two UTF-16 code units.
conversationStarted ==
    <<"U+D83D", "U+DCAC", " ", "C", "o", "n", "v", "e", "r", "s", "a", "t",
      "i", "o", "n", " ", "s", "t", "a", "r", "t", "e", "d", "!", " ", "S",
      "e", "n", "d", " ", "y", "o", "u", "r", " ", "f", "i", "r", "s", "t",
      " ", "m", "e", "s", "s", "a", "g", "e", " ", "i", "n", " ", "t", "h",
      "e", " ", "t", "h", "r", "e", "a", "d", " ", "b", "e", "l", "o", "w",
      ".">>

\* What a failed call on the interaction throws: an Error with a message, or a
\* value that is not an Error.
NoFailure == [thrown |-> FALSE, isError |-> FALSE, message |-> <<>>]
CommandFailures ==
    {[thrown |-> TRUE, isError |-> TRUE, message |->
        <<"C", "a", "n", "n", "o", "t", " ", "c", "r", "e", "a", "t", "e",
          " ", "t", "h", "r", "e", "a", "d">>],
     [thrown |-> TRUE, isError |-> FALSE, message |->
        <<"S", "t", "r", "i", "n", "g", " ", "e", "r", "r", "o", "r">>]}

\* `error instanceof Error ? `Sorry, I encountered an error: ${error.message}`
\*    : 'Sorry, I encountered an unexpected error. Please try again later.'`
errorMessageOf(error) ==
    IF error.isError
    THEN
        <<"S", "o", "r", "r", "y", ",", " ", "I", " ", "e", "n", "c", "o",
          "u", "n", "t", "e", "r", "e", "d", " ", "a", "n", " ", "e", "r",
          "r", "o", "r", ":", " ">> \o error.message
    ELSE
        <<"S", "o", "r", "r", "y", ",", " ", "I", " ", "e", "n", "c", "o",
          "u", "n", "t", "e", "r", "e", "d", " ", "a", "n", " ", "u", "n",
          "e", "x", "p", "e", "c", "t", "e", "d", " ", "e", "r", "r", "o",
          "r", ".", " ", "P", "l", "e", "a", "s", "e", " ", "t", "r", "y",
          " ", "a", "g", "a", "i", "n", " ", "l", "a", "t", "e", "r", ".">>

\* expect.stringContaining: `part` occurs in `whole`.
contains(whole, part) ==
    \E i \in 0..(Len(whole) - Len(part)) : SubSeq(whole, i + 1, i + Len(part)) = part

\* An error path that always answers with a new reply.
errorReplyViaReply(deferred) == "reply"

\* `if (interaction.deferred) editReply(errorMessage) else reply({..., ephemeral: true})`
errorReplyVia(deferred) == IF deferred THEN "editReply" ELSE "reply"

\* A reply that carries no interaction metadata.
starterMessageOfPlain(interaction) == StarterPlain

\* The message `interaction.reply({..., fetchReply: true})` resolves to: the
\* bot's reply to the interaction, whose interaction metadata names the user
\* who invoked the command.
starterMessageOf(interaction) == StarterBy(interaction.user)

\* The order in which threads come to exist.
ThreadOrder == <<"t1", "t2">>

nextThread == ThreadOrder[Cardinality(created) + 1]

CommandIdle ==
    /\ interactions = <<>>
    /\ created = Threads
    /\ commandsLeft = 0
    /\ commandFaultsLeft = 0
    /\ restartsLeft = 0

\* No thread exists yet: every thread will be started by /chat.
CommandInit ==
    /\ interactions = <<>>
    /\ created = {}
    /\ commandsLeft = MaxCommands
    /\ commandFaultsLeft = MaxCommandFaults
    /\ restartsLeft = MaxRestarts

NewInteraction(user, deferred) ==
    [user |-> user, deferred |-> deferred, pc |-> "reply", reply |-> StarterMissing,
     thread |-> "none", error |-> NoFailure, responses |-> <<>>, thrownAt |-> {}]

Response(via, content, ephemeral) ==
    [via |-> via, content |-> content, ephemeral |-> ephemeral]

\* A user invokes /chat in a channel; the gateway delivers the interaction and
\* index.ts calls `command.execute(interaction, threadService)`.
CommandInvoke ==
    /\ commandsLeft > 0
    /\ Len(interactions) < Len(ThreadOrder)
    /\ commandsLeft' = commandsLeft - 1
    /\ \E user \in Humans, deferred \in BOOLEAN :
        interactions' = Append(interactions, NewInteraction(user, deferred))
    /\ UNCHANGED <<created, commandFaultsLeft, restartsLeft>>
    /\ UNCHANGED <<chunkVars, chatVars, handlerVars, historyVars, requestVars>>

\* Where an exception thrown at a position of execute is caught: in the try
\* block, by the catch block (which answers with the error text); in the catch
\* block's own try, by the inner catch (which only logs).
commandCatchTarget(at) == IF at = "catch" THEN "done" ELSE "catch"

CommandThrow(i, error) ==
    [interactions EXCEPT ![i].pc = commandCatchTarget(interactions[i].pc),
                         ![i].error = IF interactions[i].pc = "catch" THEN @ ELSE error,
                         ![i].thrownAt = @ \cup {interactions[i].pc}]

\* `const reply = await interaction.reply({content: ..., fetchReply: true})`
CommandReply(i) ==
    /\ interactions[i].pc = "reply"
    /\ \/ /\ interactions' = [interactions EXCEPT
                ![i].reply = starterMessageOf(interactions[i]),
                ![i].responses = Append(@, Response("reply", conversationStarted, FALSE)),
                ![i].pc = "startThread"]
          /\ UNCHANGED commandFaultsLeft
       \/ /\ commandFaultsLeft > 0
          /\ commandFaultsLeft' = commandFaultsLeft - 1
          /\ \E error \in CommandFailures : interactions' = CommandThrow(i, error)
    /\ UNCHANGED <<created, commandsLeft, restartsLeft>>
    /\ UNCHANGED <<chunkVars, chatVars, handlerVars, historyVars, requestVars>>

\* `const thread = await reply.startThread({name: threadName, ...})`: the new
\* thread's starter message is the reply.
CommandStartThread(i) ==
    /\ interactions[i].pc = "startThread"
    /\ \/ /\ interactions' = [interactions EXCEPT ![i].thread = nextThread, ![i].pc = "done"]
          /\ created' = created \cup {nextThread}
          /\ starter' = [starter EXCEPT ![nextThread] = interactions[i].reply]
          /\ threadName' = [threadName EXCEPT ![nextThread] = "Chat"]
          /\ UNCHANGED commandFaultsLeft
       \/ /\ commandFaultsLeft > 0
          /\ commandFaultsLeft' = commandFaultsLeft - 1
          /\ \E error \in CommandFailures : interactions' = CommandThrow(i, error)
          /\ UNCHANGED <<created, starter, threadName>>
    /\ UNCHANGED <<commandsLeft, restartsLeft>>
    /\ UNCHANGED <<store, nextId, handlers, outbox, naming, eventsLeft, faultsLeft, postFaultsLeft>>
    /\ UNCHANGED <<chunkVars, chatVars, historyVars, requestVars>>

\* The catch block of execute: the error text is sent with editReply when the
\* interaction is deferred and as an ephemeral reply otherwise; a failure of
\* that call is logged.
CommandCatch(i) ==
    /\ interactions[i].pc = "catch"
    /\ \/ /\ interactions' = [interactions EXCEPT
                ![i].responses = Append(@,
                    Response(errorReplyVia(interactions[i].deferred),
                             errorMessageOf(interactions[i].error),
                             ~interactions[i].deferred)),
                ![i].pc = "done"]
          /\ UNCHANGED commandFaultsLeft
       \/ /\ commandFaultsLeft > 0
          /\ commandFaultsLeft' = commandFaultsLeft - 1
          /\ \E error \in CommandFailures : interactions' = CommandThrow(i, error)
    /\ UNCHANGED <<created, commandsLeft, restartsLeft>>
    /\ UNCHANGED <<chunkVars, chatVars, handlerVars, historyVars, requestVars>>

\* A person writes a message with content in a thread that exists.
CommandReceive ==
    /\ Receive
    /\ LET message == handlers'[Len(handlers')].msg
       IN  /\ message.channel \in created
           /\ ~message.bot /\ ~message.system /\ ~isEmptyContent(message.content)

\* The bot's process is restarted: what it was doing is abandoned, and the new
\* process starts with nothing but what the platform holds.
Restart ==
    /\ restartsLeft > 0
    /\ restartsLeft' = restartsLeft - 1
    /\ handlers' = [h \in 1..Len(handlers) |->
                        IF handlers[h].pc = "done" THEN handlers[h]
                        ELSE [handlers[h] EXCEPT !.pc = "killed"]]
    /\ interactions' = [i \in 1..Len(interactions) |->
                        IF interactions[i].pc = "done" THEN interactions[i]
                        ELSE [interactions[i] EXCEPT !.pc = "killed"]]
    /\ naming' = {}
    /\ UNCHANGED <<created, commandsLeft, commandFaultsLeft>>
    /\ UNCHANGED <<starter, store, nextId, outbox, threadName, eventsLeft, faultsLeft, postFaultsLeft>>
    /\ UNCHANGED <<chunkVars, chatVars, historyVars, requestVars>>

CommandNext ==
    \/ CommandInvoke
    \/ \E i \in 1..Len(interactions) : CommandReply(i)
    \/ \E i \in 1..Len(interactions) : CommandStartThread(i)
    \/ \E i \in 1..Len(interactions) : CommandCatch(i)
    \/ CommandReceive
    \/ \E h \in 1..Len(handlers) : HandlerCheck(h)
    \/ \E h \in 1..Len(handlers) : HandlerResolveOwner(h)
    \/ \E h \in 1..Len(handlers) : HandlerFetchRecent(h)
    \/ \E h \in 1..Len(handlers) : HandlerBuildHistory(h)
    \/ \E h \in 1..Len(handlers) : HandlerPostIndicator(h)
    \/ \E h \in 1..Len(handlers) : HandlerAttempt(h)
    \/ \E h \in 1..Len(handlers) : HandlerAttemptFails(h)
    \/ \E h \in 1..Len(handlers) : HandlerAttemptRetries(h)
    \/ \E h \in 1..Len(handlers) : HandlerShowRetry(h)
    \/ \E h \in 1..Len(handlers) : HandlerDeliverFirst(h)
    \/ \E h \in 1..Len(handlers) : HandlerSendChunk(h)
    \/ \E h \in 1..Len(handlers) : HandlerNotice(h)
    \/ \E h \in 1..Len(handlers) : HandlerNameThread(h)
    \/ Restart

-----------------------------------------------------------------------------
(* The request of sendChatRequest, and ChatService.generateThreadName *)

\* The lists a caller can pass.
Roles == {"system", "user", "assistant"}
RequestContents == {Text(<<"h", "i">>), Text(<<"o", "k">>)}
Histories ==
    UNION {[1..n -> [role : Roles, content : RequestContents]] : n \in 0..MaxHistoryLen}

\* `response.trim().substring(0, 50)`, `threadName || 'Chat'`, `return 'Chat'`
nameLimit == 50
fallbackName == <<"C", "h", "a", "t">>

\* A name that is trimmed but not cut.
threadNameOfUncut(response) ==
    IF trim(response) = <<>> THEN fallbackName ELSE trim(response)

\* The name made of a reply: trimmed, cut to its first 50 characters, and
\* 'Chat' when nothing is left.
threadNameOf(response) ==
    LET trimmed    == trim(response)
        cut == substring(trimmed, 0, Min({nameLimit, Len(trimmed)}))
    IN  IF cut = <<>> THEN fallbackName ELSE cut

\* The user messages a name is generated for, and the replies of the backend
\* to the naming request: words of any length up to MaxReplyLen, with or
\* without whitespace around them, and two words with a space between.
NameInputs == {<<"h", "i">>, <<"a", " ", "b">>}
NameReplies ==
    {Repeat(" ", l) \o Repeat("a", n) \o Repeat("\n", r) :
        l \in 0..1, n \in 0..MaxReplyLen, r \in 0..1}
    \cup {Repeat("a", n) \o <<" ", "b">> : n \in 0..MaxReplyLen}

NoResult == [ended |-> FALSE, threw |-> FALSE, content |-> <<>>]

RequestIdle ==
    /\ reqMessages = <<>>
    /\ reqBody = <<>>
    /\ reqSent = <<>>
    /\ reqResult = NoResult
    /\ reqPc = "idle"
    /\ nameUser = <<>>
    /\ nameResult = <<>>
    /\ namePc = "idle"

\* sendChatRequest is called with any list within the bounds.
RequestInit ==
    /\ reqMessages \in Histories
    /\ reqBody = <<>>
    /\ reqSent = <<>>
    /\ reqResult = NoResult
    /\ reqPc = "start"
    /\ nameUser = <<>>
    /\ nameResult = <<>>
    /\ namePc = "idle"

\* generateThreadName is called with a user message.
NamingInit ==
    /\ reqMessages = <<>>
    /\ reqBody = <<>>
    /\ reqSent = <<>>
    /\ reqResult = NoResult
    /\ reqPc = "idle"
    /\ nameUser \in NameInputs
    /\ nameResult = <<>>
    /\ namePc = "start"

\* What a fetch of the call can come to.
RequestOutcomes ==
    IF namePc = "idle" THEN SuccessOutcomes \cup HandlerFaults
    ELSE {Reply(c) : c \in NameReplies} \cup HandlerFaults

\* The request body is built, once, before the loop.
RequestPrepare ==
    /\ reqPc = "start"
    /\ reqBody' = messagesWithSystem(reqMessages)
    /\ reqPc' = "prepared"
    /\ UNCHANGED <<reqMessages, reqSent, reqResult, nameUser, nameResult, namePc>>
    /\ UNCHANGED <<chunkVars, chatVars, handlerVars, historyVars, commandVars>>

\* One pass of the loop: the fetch is issued with the body, and the call
\* returns the content, goes on to its next attempt, or throws after the last.
RequestFetch ==
    /\ reqPc = "prepared"
    /\ reqSent' = Append(reqSent, reqBody)
    /\ \E outcome \in RequestOutcomes :
        LET res == attemptResult(outcome)
        IN  IF res.ok
            THEN /\ reqResult' = [ended |-> TRUE, threw |-> FALSE, content |-> res.content]
                 /\ reqPc' = "returned"
            ELSE IF isLastAttempt(Len(reqSent))
            THEN /\ reqResult' = [ended |-> TRUE, threw |-> TRUE, content |-> <<>>]
                 /\ reqPc' = "thrown"
            ELSE UNCHANGED <<reqResult, reqPc>>
    /\ UNCHANGED <<reqMessages, reqBody, nameUser, nameResult, namePc>>
    /\ UNCHANGED <<chunkVars, chatVars, handlerVars, historyVars, commandVars>>

RequestNext ==
    \/ RequestPrepare
    \/ RequestFetch

\* generateThreadName builds its two messages and calls sendChatRequest.
NameStart ==
    /\ namePc = "start"
    /\ reqMessages' = <<[role |-> "system", content |-> threadNamePrompt],
                        [role |-> "user", content |-> Text(nameUser)]>>
    /\ reqPc' = "start"
    /\ namePc' = "calling"
    /\ UNCHANGED <<reqBody, reqSent, reqResult, nameUser, nameResult>>
    /\ UNCHANGED <<chunkVars, chatVars, handlerVars, historyVars, commandVars>>

\* The call has ended: the name is made of the response, or the catch block
\* returns 'Chat'.
NameReturn ==
    /\ namePc = "calling"
    /\ reqPc \in {"returned", "thrown"}
    /\ nameResult' = IF reqResult.threw THEN fallbackName
                     ELSE threadNameOf(reqResult.content)
    /\ namePc' = "returned"
    /\ UNCHANGED <<reqMessages, reqBody, reqSent, reqResult, reqPc, nameUser>>
    /\ UNCHANGED <<chunkVars, chatVars, handlerVars, historyVars, commandVars>>

NamingNext ==
    \/ NameStart
    \/ RequestPrepare
    \/ RequestFetch
    \/ NameReturn

-----------------------------------------------------------------------------
(* Specifications *)

\* chunkMessage applied to every text and maxLength within the bounds.
InitChunk ==
    /\ ChunkInit /\ ChatIdle /\ HandlerIdle /\ HistoryIdle
    /\ CommandIdle /\ RequestIdle /\ ClientIdle /\ RepliesIdle

SpecChunk == InitChunk /\ [][ChunkNext]_vars

\* chunkMessage is synchronous code: a call that can take a step takes it.
\* Applied to every text of up to MaxFairTextLen characters.
ChunkInitFair ==
    /\ text \in UNION {[1..n -> Alphabet] : n \in 0..MaxFairTextLen}
    /\ maxLength \in 1..MaxChunkLen
    /\ remainingText = text
    /\ chunks = <<>>
    /\ gaps = <<>>
    /\ chunkPc = "start"

InitChunkFair ==
    /\ ChunkInitFair /\ ChatIdle /\ HandlerIdle /\ HistoryIdle
    /\ CommandIdle /\ RequestIdle /\ ClientIdle /\ RepliesIdle

SpecChunkFair == InitChunkFair /\ [][ChunkNext]_vars /\ WF_vars(ChunkNext)

\* One sendChatRequest call against every backend within the bounds.
InitChat ==
    /\ ChatInit /\ ChunkIdle /\ HandlerIdle /\ HistoryIdle
    /\ CommandIdle /\ RequestIdle /\ ClientInit /\ RepliesIdle

SpecChat == InitChat /\ [][ChatNext]_vars

\* The bot serving messageCreate events, handled concurrently.
Init ==
    /\ HandlerInit /\ ChunkIdle /\ ChatIdle /\ HistoryIdle
    /\ CommandIdle /\ RequestIdle /\ ClientInit /\ RepliesInitShort

Next == HandlerNext

Spec == Init /\ [][Next]_vars

\* The handling of a single event, with every attempt of the completion request
\* free to fail. Every step of a handler ends: each network call returns, fails
\* or times out.
InitOne ==
    /\ HandlerInitOne /\ ChunkIdle /\ ChatIdle /\ HistoryIdle
    /\ CommandIdle /\ RequestIdle /\ ClientInit /\ RepliesInit

HandlerStep(h) ==
    \/ HandlerCheck(h)
    \/ HandlerResolveOwner(h)
    \/ HandlerFetchRecent(h)
    \/ HandlerBuildHistory(h)
    \/ HandlerPostIndicator(h)
    \/ HandlerAttempt(h)
    \/ HandlerAttemptFails(h)
    \/ HandlerAttemptRetries(h)
    \/ HandlerShowRetry(h)
    \/ HandlerDeliverFirst(h)
    \/ HandlerSendChunk(h)
    \/ HandlerNotice(h)
    \/ HandlerNameThread(h)

HandlerFairness == WF_vars(\E h \in 1..Len(handlers) : HandlerStep(h))

SpecOne == InitOne /\ [][Next]_vars /\ HandlerFairness

\* One event in a thread that already holds messages: thread t1, started by u1
\* and named after u1's first message, holds nothing, or that first message
\* and the messages the bot has posted since (the chunks of its replies).
Backlog(n) ==
    [i \in 1..n |->
        IF i = 1
        THEN [id |-> 1, createdTimestamp |-> 1, author |-> "u1", bot |-> FALSE,
              content |-> Text(<<"h", "i">>), system |-> FALSE]
        ELSE BotMessage(i, Text(<<"o", "k">>))]

HandlerInitBacklog ==
    /\ starter = [t \in Threads |-> IF t = "t1" THEN StarterBy("u1") ELSE StarterPlain]
    /\ \E n \in 0..(MaxBacklog + 1) :
        /\ store = [t \in Threads |-> IF t = "t1" THEN Backlog(n) ELSE <<>>]
        /\ nextId = n + 1
        /\ threadName = [t \in Threads |-> IF t = "t1" /\ n > 0 THEN "Greeting" ELSE "Chat"]
    /\ handlers = <<>>
    /\ outbox = <<>>
    /\ naming = {}
    /\ eventsLeft = 1
    /\ faultsLeft = MaxFaults
    /\ postFaultsLeft = 0

InitBacklog ==
    /\ HandlerInitBacklog /\ ChunkIdle /\ ChatIdle /\ HistoryIdle
    /\ CommandIdle /\ RequestIdle /\ ClientInit /\ RepliesInit

SpecBacklog == InitBacklog /\ [][Next]_vars

\* One buildConversationHistory call on every fetched list within the bounds.
InitHistory ==
    /\ HistoryInit /\ ChunkIdle /\ ChatIdle /\ HandlerIdle
    /\ CommandIdle /\ RequestIdle /\ ClientIdle /\ RepliesIdle

SpecHistory == InitHistory /\ [][HistoryNext]_vars

\* The bot from the creation of its threads on: /chat invocations, the messages
\* written in the threads they start, and restarts of the bot.
HandlerInitCommand ==
    /\ starter = [t \in Threads |-> StarterMissing]
    /\ store = [t \in Threads |-> <<>>]
    /\ nextId = 1
    /\ handlers = <<>>
    /\ outbox = <<>>
    /\ naming = {}
    /\ threadName = [t \in Threads |-> "Chat"]
    /\ eventsLeft = MaxEvents
    /\ faultsLeft = MaxFaults
    /\ postFaultsLeft = 0

InitCommand ==
    /\ CommandInit /\ HandlerInitCommand /\ ChunkIdle /\ ChatIdle
    /\ HistoryIdle /\ RequestIdle /\ ClientInit /\ RepliesInitShort

SpecCommand == InitCommand /\ [][CommandNext]_vars

\* One sendChatRequest call on every list within the bounds.
InitRequest ==
    /\ RequestInit /\ ChunkIdle /\ ChatIdle /\ HandlerIdle
    /\ HistoryIdle /\ CommandIdle /\ ClientIdle /\ RepliesIdle

SpecRequest == InitRequest /\ [][RequestNext]_vars

\* One generateThreadName call, for every reply within the bounds.
InitNaming ==
    /\ NamingInit /\ ChunkIdle /\ ChatIdle /\ HandlerIdle
    /\ HistoryIdle /\ CommandIdle /\ ClientIdle /\ RepliesIdle

SpecNaming == InitNaming /\ [][NamingNext]_vars
-----------------------------------------------------------------------------
(* Properties of chunkMessage, checked under SpecChunk *)

ChunkDone == chunkPc = "done"

RECURSIVE Concat(_)
Concat(seqs) == IF seqs = <<>> THEN <<>> ELSE Head(seqs) \o Concat(Tail(seqs))

RECURSIVE JoinWith(_, _)
JoinWith(seqs, sep) ==
    IF seqs = <<>> THEN <<>>
    ELSE IF Len(seqs) = 1 THEN Head(seqs)
    ELSE Head(seqs) \o sep \o JoinWith(Tail(seqs), sep)

\* s with every whitespace character deleted.
StripWhitespace(s) == SelectSeq(s, LAMBDA c : c \notin Whitespace)

IsTrimmed(s) == s = <<>> \/ (s[1] \notin Whitespace /\ s[Len(s)] \notin Whitespace)

\* C6: every chunk returned by chunkMessage(text, maxLength), and every chunk
\* collected so far, has length <= maxLength.
C6_ChunkWithinLimit ==
    \A i \in 1..Len(chunks) : Len(chunks[i]) <= maxLength

\* C6 witness: a finished run with several chunks, one of them of exactly
\* maxLength characters, cut where the next character is a sentence terminator.
C6_Witness ==
    /\ ChunkDone
    /\ Len(chunks) >= 2
    /\ Len(chunks[1]) = maxLength
    /\ Len(text) > maxLength
    /\ text[maxLength + 1] \in SentenceEnd

\* C7 as stated: no returned chunk is the empty string, and in a multi-chunk
\* result no chunk has leading or trailing whitespace.
C7_Original ==
    ChunkDone =>
        /\ \A i \in 1..Len(chunks) : chunks[i] # <<>>
        /\ Len(chunks) >= 2 => \A i \in 1..Len(chunks) : IsTrimmed(chunks[i])

\* C7 amended: for every non-empty text, no returned chunk is the empty string,
\* and in a multi-chunk result no chunk has leading or trailing whitespace.
C7_NonEmptyTrimmedChunks ==
    (ChunkDone /\ text # <<>>) =>
        /\ \A i \in 1..Len(chunks) : chunks[i] # <<>>
        /\ Len(chunks) >= 2 => \A i \in 1..Len(chunks) : IsTrimmed(chunks[i])

\* C7 witness: a multi-chunk result of a text that starts with whitespace and
\* has whitespace at a cut.
C7_Witness ==
    /\ ChunkDone
    /\ Len(chunks) >= 2
    /\ text[1] \in Whitespace
    /\ Len(gaps) >= 1 /\ Len(gaps[1]) >= 2

\* C8: the returned chunks, concatenated in order with all whitespace deleted,
\* are the original text with all whitespace deleted.
C8_ContentPreserved ==
    ChunkDone => StripWhitespace(Concat(chunks)) = StripWhitespace(text)

\* C8 witness: a multi-chunk result whose concatenation differs from the text
\* (whitespace was removed) and that has a hard cut (nothing dropped at it).
C8_Witness ==
    /\ ChunkDone
    /\ Len(chunks) >= 3
    /\ Concat(chunks) # text
    /\ \E i \in 1..Len(gaps) : gaps[i] = <<>>

AllGapsSingleSpace == \A i \in 1..Len(gaps) : gaps[i] = <<" ">>

\* C9 as stated: for any text, the chunks re-joined with a single space between
\* consecutive chunks are the trimmed original (read in the claim's favour: only
\* whitespace at the two ends of the text may differ).
C9_Original ==
    ChunkDone => trim(JoinWith(chunks, <<" ">>)) = trim(text)

\* C9 amended: the chunks re-joined with a single space are the trimmed original
\* exactly when what was dropped at every chunk boundary is one space character
\* (and, for a text that fits, the text has no leading or trailing whitespace,
\* since it is returned untrimmed).
C9_RejoinIffSingleSpaceCuts ==
    ChunkDone =>
        ((JoinWith(chunks, <<" ">>) = trim(text))
            <=> (AllGapsSingleSpace /\ (Len(text) <= maxLength => IsTrimmed(text))))

\* C9 witness: three chunks cut at single spaces, re-joined to the trimmed original.
C9_Witness ==
    /\ ChunkDone
    /\ Len(chunks) >= 3
    /\ AllGapsSingleSpace
    /\ JoinWith(chunks, <<" ">>) = trim(text)

\* C10: if text.length <= maxLength, chunkMessage returns [text], text unchanged.
C10_FitsReturnsTextVerbatim ==
    (ChunkDone /\ Len(text) <= maxLength) => chunks = <<text>>

\* C10 witness: a text of exactly maxLength characters with leading and trailing
\* whitespace, returned as is.
C10_Witness ==
    /\ ChunkDone
    /\ Len(text) = maxLength
    /\ Len(text) >= 3
    /\ text[1] \in Whitespace /\ text[Len(text)] \in Whitespace
    /\ chunks = <<text>>

-----------------------------------------------------------------------------
(* Properties of sendChatRequest, checked under SpecChat *)

\* The error message of a failed fetch, by the kind of failure.
FailureMessage(outcome) ==
    CASE outcome = TransportError ->
            [error |-> "Network error", status |-> ""]
      [] outcome = AbortError ->
            [error |-> "This operation was aborted", status |-> ""]
      [] outcome = NoChoices ->
            [error |-> "No choices in chat completion response", status |-> ""]
      [] outcome = Reply(<<>>) ->
            [error |-> "No content in chat completion response", status |-> ""]
      [] outcome = HttpError("429 Too Many Requests") ->
            [error |-> "Chat API error", status |-> "429 Too Many Requests"]
      [] outcome = HttpError("500 Internal Server Error") ->
            [error |-> "Chat API error", status |-> "500 Internal Server Error"]

\* The error text a {retrying} event carries after an attempt that came to
\* `outcome`.
ReportedMessage(outcome) ==
    IF outcome = AbortError
    THEN [error |-> "Request timeout after 30000ms", status |-> ""]
    ELSE FailureMessage(outcome)

RetryingEvents == SelectSeq(events, LAMBDA e : e.type = "retrying")

ThinkingEvents == SelectSeq(events, LAMBDA e : e.type = "thinking")

AllFailed == \A i \in 1..Len(backendLog) : backendLog[i] \in FailingOutcomes

\* C3: when every attempt fails, whatever the kind of failure, the call makes
\* exactly 10 backend invocations and then fails; the observer, when the call
\* has one, was told {thinking} once and {retrying} 9 times, the last event
\* being the 9th retry.
C3_TenAttemptsThenFailure ==
    /\ fetchCalls <= 10
    /\ (AllFailed /\ Len(backendLog) = 10) => chatPc = "thrown"
    /\ chatPc = "thrown" =>
        /\ fetchCalls = 10
        /\ Len(backendLog) = 10
        /\ AllFailed
        /\ callsObserver =>
            /\ Len(ThinkingEvents) = 1
            /\ Len(RetryingEvents) = 9
            /\ Len(events) = 10
            /\ events[10].attempt = 9

\* C3 witness: a call that failed for good against a backend that sometimes
\* timed out and sometimes answered 429.
C3_Witness ==
    /\ chatPc = "thrown"
    /\ Len(RetryingEvents) = 9
    /\ backendFaults = {AbortError, HttpError("429 Too Many Requests")}
    /\ \E i, j \in 1..Len(backendLog) :
            /\ backendLog[i] = AbortError
            /\ backendLog[j] = HttpError("429 Too Many Requests")

\* C4: if the first k attempts fail (0 <= k <= 9) and attempt k+1 succeeds with
\* non-empty content, the call returns exactly that content after exactly k+1
\* invocations, and the observer of the call received {thinking} and then k {retrying}
\* events numbered 1..k, with maxAttempts 10, each with the message of the
\* attempt that had just failed. The value returned is never the empty string.
C4_SuccessAfterKFailures ==
    chatPc = "returned" =>
        LET k == Len(backendLog) - 1
        IN  /\ k \in 0..9
            /\ fetchCalls = k + 1
            /\ \A i \in 1..k : backendLog[i] \in FailingOutcomes
            /\ backendLog[k + 1] \in SuccessOutcomes
            /\ chatResult = [returned |-> backendLog[k + 1].choices[1]]
            /\ chatResult.returned # <<>>
            /\ callsObserver =>
                /\ Len(events) = k + 1
                /\ events[1] = [type |-> "thinking"]
                /\ \A i \in 1..k :
                        events[i + 1] = [type |-> "retrying", attempt |-> i,
                                         maxAttempts |-> 10,
                                         error |-> ReportedMessage(backendLog[i])]

\* C4 witness: success at the 10th attempt after 9 failures of two kinds.
C4_Witness ==
    /\ chatPc = "returned"
    /\ Len(backendLog) = 10
    /\ backendLog[1] = TransportError
    /\ backendLog[9] = Reply(<<>>)
    /\ Len(RetryingEvents) = 9

\* C5: when all attempts are exhausted, the error thrown begins "Failed to get
\* chat response after 10 attempts" and carries the message of the 10th failure.
C5_ErrorCarriesLastFailure ==
    chatPc = "thrown" =>
        /\ chatResult.thrown.prefix = "Failed to get chat response after"
        /\ chatResult.thrown.attempts = 10
        /\ chatResult.thrown.suffix = "attempts"
        /\ Len(backendLog) = 10
        /\ chatResult.thrown.message = FailureMessage(backendLog[10])

\* C5 witness: the 10th failure is of another kind than the nine before it.
C5_Witness ==
    /\ chatPc = "thrown"
    /\ backendLog[10] = HttpError("500 Internal Server Error")
    /\ \A i \in 1..9 : backendLog[i] = NoChoices
    /\ chatResult.thrown.message.error = "Chat API error"

-----------------------------------------------------------------------------
(* Properties of the message handler and the thread service (Spec) *)

\* The thread's owner: the user whose interaction started it, if any.
Owner(t) == IF isThread(t) THEN starter[t].user ELSE NoUser

\* The handlers whose eligibility check has come to its result, and those that
\* have built a history.
Decided == {h \in 1..Len(handlers) : handlers[h].pc \notin {"check", "starter"}}
Built == {h \in 1..Len(handlers) : handlers[h].fetched # <<>>}

\* The starter-message lookup of a check gave an invoking user.
YieldsOwner(fetched) == ~fetched.threw /\ fetched.found /\ fetched.user \in Humans

\* C1: shouldProcessMessage returns true exactly when the author is not a bot,
\* the channel is a thread, the thread's starter message yields an invoking
\* user, and the author is that user; in every sequence of events, so a rejected
\* message of another participant does not change a later check of the owner's.
C1_EligibleIffOwnerInThread ==
    \A h \in Decided :
        LET m == handlers[h].msg
        IN  handlers[h].eligible <=>
                /\ ~m.bot
                /\ isThread(m.channel)
                /\ YieldsOwner(handlers[h].starterSeen)
                /\ m.author = handlers[h].starterSeen.user

\* C1 witness: another participant's message in the owner's thread was rejected,
\* and the owner's later message in the same thread was accepted.
C1_Witness ==
    /\ Len(handlers) = 2
    /\ Decided = {1, 2}
    /\ handlers[1].msg.channel = "t1" /\ handlers[1].msg.author = "u2"
    /\ handlers[1].starterSeen = starter["t1"]
    /\ ~handlers[1].eligible
    /\ handlers[2].msg.channel = "t1" /\ handlers[2].msg.author = "u1"
    /\ handlers[2].eligible

\* The fetched messages that contribute an entry to the history, in order.
Contributing(messages) ==
    SelectSeq(sortByCreatedTimestamp(messages),
              LAMBDA m : ~(isEmptyContent(m.content) \/ m.system))

\* C2 (as stated): in every history built for a thread, each role-user entry
\* comes from a message written by the thread's owner, and every message the
\* bot posts or edits is caused by a message of the thread's owner.
C2_Original ==
    /\ \A h \in Built :
        LET from == Contributing(handlers[h].fetched)
        IN  \A i \in 1..Len(handlers[h].history) :
                handlers[h].history[i].role = "user" =>
                    from[i].author = Owner(handlers[h].msg.channel)
    /\ \A i \in 1..Len(outbox) :
        handlers[outbox[i].by].msg.author = Owner(outbox[i].thread)

-----------------------------------------------------------------------------
(* Properties of the handling of one event (SpecOne) *)

\* What the bot did for event h, in order.
RECURSIVE OpsBy(_, _)
OpsBy(h, log) ==
    IF log = <<>> THEN <<>>
    ELSE IF Head(log).by = h THEN <<Head(log)>> \o OpsBy(h, Tail(log))
    ELSE OpsBy(h, Tail(log))

\* The part of it that carries text of the response.
ResponseOps(h) == SelectSeq(OpsBy(h, outbox), LAMBDA e : e.content.kind = "text")

SendsBy(h) == SelectSeq(OpsBy(h, outbox), LAMBDA e : e.op = "send")

\* The handlers whose completion request returned a response and that met no
\* failure of the platform since.
Delivering == {h \in 1..Len(handlers) :
                    handlers[h].response # <<>> /\ ~handlers[h].caught}

\* The content the thread shows for message `id`.
Shown(t, id) ==
    LET at == {i \in 1..Len(store[t]) : store[t][i].id = id}
    IN  store[t][CHOOSE i \in at : TRUE].content

\* The handlers whose response chunkMessage splits into no chunk: the response
\* is made of whitespace only and is longer than a message.
Chunkless == {h \in Delivering : handlers[h].chunks = <<>>}

\* C11: after a successful completion the indicator of the event is edited to the
\* first chunk of the response, then chunks 2..n are sent to the same thread as
\* new messages, one after the other in index order; when the handler is done it
\* has edited its indicator and has sent n-1 messages besides the indicator
\* (none for a single chunk).
C11_Original ==
    \A h \in Delivering :
        LET cs   == chunkMessage(handlers[h].response, MessageLimit)
            ops  == ResponseOps(h)
            t    == handlers[h].msg.channel
        IN  /\ handlers[h].pc = "deliver" => ops = <<>>
            /\ handlers[h].pc = "chunks" => Len(ops) \in 1..(Len(cs) - 1)
            /\ handlers[h].pc = "done" =>
                    /\ Len(ops) >= 1
                    /\ Len(ops) = Len(cs)
                    /\ Len(SendsBy(h)) - 1 = Len(cs) - 1
            /\ \A k \in 1..Len(ops) :
                    /\ ops[k].content = Text(cs[k])
                    /\ ops[k].thread = t
                    /\ ops[k].op = IF k = 1 THEN "edit" ELSE "send"
                    /\ k = 1 => ops[k].target = handlers[h].statusMessage
            /\ Len(ops) >= 1 => Shown(t, handlers[h].statusMessage) = Text(cs[1])

\* C11, the state that refutes it: a completion request returned a response of
\* whitespace only, longer than a message; the handler is done, and it has
\* edited nothing and sent nothing but its indicator.
C11_Witness ==
    \E h \in Chunkless :
        /\ handlers[h].pc = "done"
        /\ handlers[h].response # <<>>
        /\ OpsBy(h, outbox) = <<[op |-> "send", thread |-> handlers[h].msg.channel,
                                 target |-> handlers[h].statusMessage,
                                 content |-> Thinking, by |-> h]>>

\* What does hold of the delivery: a response of n >= 1 chunks is delivered as
\* C11 says (the edit to the first chunk, then n-1 sends in index order), and a
\* response of no chunk is not delivered at all.
DeliveryInOrder ==
    \A h \in Delivering :
        LET cs   == chunkMessage(handlers[h].response, MessageLimit)
            ops  == ResponseOps(h)
            t    == handlers[h].msg.channel
        IN  /\ handlers[h].chunks = cs
            /\ handlers[h].pc = "deliver" => ops = <<>>
            /\ handlers[h].pc = "chunks" => Len(ops) \in 1..(Len(cs) - 1)
            /\ handlers[h].pc = "done" =>
                    /\ Len(ops) = Len(cs)
                    /\ Len(SendsBy(h)) = 1 + Max({0, Len(cs) - 1})
            /\ \A k \in 1..Len(ops) :
                    /\ ops[k].content = Text(cs[k])
                    /\ ops[k].thread = t
                    /\ ops[k].op = IF k = 1 THEN "edit" ELSE "send"
                    /\ k = 1 => ops[k].target = handlers[h].statusMessage
            /\ Len(ops) >= 1 => Shown(t, handlers[h].statusMessage) = Text(cs[1])

\* A response of three chunks has been delivered in full.
DeliveredThreeChunks ==
    \E h \in Delivering :
        /\ handlers[h].pc = "done"
        /\ Len(handlers[h].chunks) = 3
        /\ Len(ResponseOps(h)) = 3
        /\ Len(SendsBy(h)) = 3

\* The failure notices posted for event h.
NoticesBy(h) == SelectSeq(OpsBy(h, outbox), LAMBDA e : e.content = errorNotice)

\* The handlers that met a failure: of the recent-message fetch, of the history
\* build, of the completion request (all attempts), or of a send or an edit.
Caught == {h \in 1..Len(handlers) : handlers[h].caught}

\* C12: a handler that met a failure of the history build or of the completion
\* request posts one failure notice, the fixed generic text, as a new message in
\* its thread, and nothing after it; if posting the notice fails the handler
\* just ends. A handler that met no failure posts no notice.
C12_OneNoticeThenNothing ==
    \A h \in 1..Len(handlers) :
        LET ops == OpsBy(h, outbox)
        IN  /\ h \notin Caught => NoticesBy(h) = <<>>
            /\ h \in Caught =>
                /\ handlers[h].pc \in {"notice", "done"}
                /\ handlers[h].pc = "notice" => NoticesBy(h) = <<>>
                /\ handlers[h].pc = "done" =>
                        IF "notice" \in handlers[h].thrownAt
                        THEN NoticesBy(h) = <<>>
                        ELSE Len(NoticesBy(h)) = 1
                /\ \A k \in 1..Len(ops) :
                        ops[k].content = errorNotice =>
                            /\ k = Len(ops)
                            /\ ops[k].op = "send"
                            /\ ops[k].thread = handlers[h].msg.channel

\* C12 witness: all ten attempts of the completion request failed, and the
\* notice is the last thing the handler posted.
C12_Witness ==
    \E h \in Caught :
        /\ handlers[h].pc = "done"
        /\ handlers[h].requests = maxRetries + 1
        /\ handlers[h].response = <<>>
        /\ Len(NoticesBy(h)) = 1
        /\ OpsBy(h, outbox)[Len(OpsBy(h, outbox))].content = errorNotice

\* The handler of event h has returned: its promise is resolved.
Resolved(h) == Len(handlers) >= h /\ handlers[h].pc = "done"

\* An exception has left the handler of event h: its promise is rejected.
Rejected(h) == Len(handlers) >= h /\ handlers[h].pc = "rejected"

\* C13: the promise returned by handleMessageCreate is never rejected and is
\* always resolved in the end, whichever of the handler's calls fail (the
\* starter lookup, the fetches, the indicator post, the completion attempts, the
\* status edits, the delivery, the thread naming, the notice post).
C13_AlwaysResolves ==
    /\ [](\A h \in 1..MaxEvents : ~Rejected(h))
    /\ \A h \in 1..MaxEvents : (Len(handlers) >= h) ~> Resolved(h)

\* C13 witness: the completion request failed ten times, a status edit failed on
\* the way, the post of the notice failed too, and the handler has returned.
C13_Witness ==
    \E h \in Caught :
        /\ Resolved(h)
        /\ handlers[h].requests = maxRetries + 1
        /\ handlers[h].thrownAt = {"status", "attempt", "notice"}
        /\ NoticesBy(h) = <<>>

\* C15 (as stated): nothing the handler sends or edits in the thread carries the
\* text of an error of the completion backend or of the transport; during
\* retries and after the final failure the user sees generic texts only.
C15_Original ==
    \A i \in 1..Len(outbox) : outbox[i].content.error = NoError

\* C15 (amended): every message the handler sends (the indicator, the chunks,
\* the failure notice) is free of error text, and the only operation that
\* carries one is the retry-status edit of the handler's own indicator, which
\* shows the attempt count and the error message of the attempt that failed.
C15_OnlyRetryStatusShowsError ==
    \A i \in 1..Len(outbox) :
        LET e == outbox[i]
        IN  /\ e.op = "send" => e.content.error = NoError
            /\ e.content.kind \in {"thinking", "text", "notice"} => e.content.error = NoError
            /\ e.content.kind = "retrying" =>
                    /\ e.op = "edit"
                    /\ e.target = handlers[e.by].statusMessage
                    /\ e.content.error # NoError
                    /\ e.content.maxAttempts = maxRetries + 1

\* C15 witness: retry statuses showing the error were edited into the
\* indicator, all attempts failed, and the generic notice was posted.
C15_Witness ==
    \E h \in Caught :
        /\ handlers[h].pc = "done"
        /\ handlers[h].requests = maxRetries + 1
        /\ Len(NoticesBy(h)) = 1
        /\ \E i \in 1..Len(outbox) :
                outbox[i].content.kind = "retrying" /\ outbox[i].content.error # NoError

\* The positions of a handler at which it posts to the thread (a send or an
\* edit), and the handlers none of whose posts failed.
PostPositions == {"indicate", "status", "deliver", "chunks", "notice"}

NoPostFailed(h) == handlers[h].thrownAt \cap PostPositions = {}

\* The outcome of event h is on the thread: its indicator shows the first chunk
\* of the response, or its failure notice has been posted.
Settled(h) ==
    \/ /\ handlers[h].statusMessage # NoMessageId
       /\ handlers[h].response # <<>>
       /\ Len(chunkMessage(handlers[h].response, MessageLimit)) >= 1
       /\ Shown(handlers[h].msg.channel, handlers[h].statusMessage)
            = Text(chunkMessage(handlers[h].response, MessageLimit)[1])
    \/ Len(NoticesBy(h)) = 1

\* C16: every awaited call settling, the handling of every event ends; it makes
\* at most 10 completion requests; and where it was eligible and no post of its
\* own failed, it ends with the indicator replaced by the first chunk of the
\* response or with the failure notice posted, never with the interim indicator
\* alone.
C16_Original ==
    /\ [](\A h \in 1..Len(handlers) : handlers[h].requests <= maxRetries + 1)
    /\ \A h \in 1..MaxEvents :
        (Len(handlers) >= h) ~>
            (Resolved(h) /\ (handlers[h].eligible /\ NoPostFailed(h) => Settled(h)))

\* C16, the state that refutes it: with a platform that fails no post, the
\* handling of an eligible event has ended after a completion request returned
\* a response of no chunk; no notice was posted and the thread still shows the
\* interim indicator of the event ('_Thinking..._', or its last retry status).
C16_Witness ==
    /\ postFaultsLeft = 0
    /\ \E h \in Chunkless :
        /\ Resolved(h) /\ handlers[h].eligible /\ NoPostFailed(h)
        /\ ~Settled(h)
        /\ NoticesBy(h) = <<>>
        /\ Shown(handlers[h].msg.channel, handlers[h].statusMessage).kind
                \in {"thinking", "retrying"}

\* What does hold: the handling of every event ends within 10 completion
\* requests, and an eligible one none of whose posts failed ends settled unless
\* its response has no chunk.
EndsSettledUnlessChunkless ==
    /\ [](\A h \in 1..Len(handlers) : handlers[h].requests <= maxRetries + 1)
    /\ \A h \in 1..MaxEvents :
        (Len(handlers) >= h) ~>
            (Resolved(h) /\ (handlers[h].eligible /\ NoPostFailed(h) /\ h \notin Chunkless
                                => Settled(h)))

-----------------------------------------------------------------------------
(* Properties of concurrent handlers (Spec) *)

\* The handlers whose message shouldProcessMessage has turned down.
TurnedDown == {h \in Decided : ~handlers[h].eligible}

\* C14: when shouldProcessMessage returns false the handler does nothing: it
\* returns at once, having sent and edited nothing, fetched neither the recent
\* messages nor the history, started no naming of the thread and made no
\* completion request.
C14_TurnedDownIsNoOp ==
    \A h \in TurnedDown :
        /\ handlers[h].pc = "done"
        /\ handlers[h].did = {}
        /\ OpsBy(h, outbox) = <<>>
        /\ h \notin naming
        /\ handlers[h].fetched = <<>> /\ handlers[h].history = <<>>
        /\ handlers[h].requests = 0
        /\ handlers[h].statusMessage = NoMessageId
        /\ ~handlers[h].caught

\* C14 witness: a message of another participant in the owner's thread was
\* turned down after the lookup of the thread's owner, while the owner's own
\* message in the same thread got its reply.
C14_Witness ==
    /\ Len(handlers) = 2
    /\ 1 \in TurnedDown
    /\ handlers[1].msg.author = "u2" /\ handlers[1].msg.channel = "t1"
    /\ handlers[1].starterSeen = StarterBy("u1")
    /\ handlers[2].eligible /\ handlers[2].pc = "done"
    /\ handlers[2].response # <<>>
    /\ OpsBy(1, outbox) = <<>>

\* The last thing the bot did to message `id`, if it did anything.
LastOpOn(id) ==
    LET on == {i \in 1..Len(outbox) : outbox[i].target = id}
    IN  outbox[Max(on)]

\* C17: handlers running concurrently, in one thread or in several, do not
\* touch each other's work: every send and edit of a handler goes to the thread
\* of its own message, every edit goes to the indicator that the same handler
\* posted, the chunks of a handler's response are posted in their own order,
\* and every message a handler posted shows what that handler last put there.
C17_HandlersAreIndependent ==
    /\ \A i \in 1..Len(outbox) :
        LET e == outbox[i]
        IN  /\ e.thread = handlers[e.by].msg.channel
            /\ e.op = "edit" =>
                /\ e.target = handlers[e.by].statusMessage
                /\ \E j \in 1..(i - 1) :
                        /\ outbox[j].op = "send" /\ outbox[j].by = e.by
                        /\ outbox[j].target = e.target /\ outbox[j].content = Thinking
    /\ \A h \in 1..Len(handlers) :
        LET ops == ResponseOps(h)
        IN  \A k \in 1..Len(ops) :
                ops[k].content = Text(chunkMessage(handlers[h].response, MessageLimit)[k])
    /\ \A t \in Threads : \A i \in 1..Len(store[t]) :
        (\E j \in 1..Len(outbox) : outbox[j].target = store[t][i].id) =>
            /\ LastOpOn(store[t][i].id).thread = t
            /\ LastOpOn(store[t][i].id).content = store[t][i].content

\* C17 witness: two messages of the owner in one thread were handled at the same
\* time; the second handler posted between two posts of the first, and both
\* delivered a two-chunk response.
C17_Witness ==
    /\ Len(handlers) = 2
    /\ \A h \in {1, 2} :
        /\ handlers[h].msg.channel = "t1"
        /\ handlers[h].pc = "done" /\ ~handlers[h].caught
        /\ Len(ResponseOps(h)) = 2
    /\ \E i, j, k \in 1..Len(outbox) :
        /\ i < j /\ j < k
        /\ outbox[i].by = 1 /\ outbox[j].by = 2 /\ outbox[k].by = 1
        /\ outbox[k].op = "edit"

-----------------------------------------------------------------------------
(* Properties of buildConversationHistory (SpecHistory) *)

\* The position, in what the fetch returned, of the message an entry of the
\* history was made from: the i-th fetched message carries i characters.
FetchIndex(entry) == Len(entry.content.chars)

FetchIndexes == [k \in 1..Len(histResult) |-> FetchIndex(histResult[k])]

FetchedTimes == [i \in 1..Len(histFetched) |-> histFetched[i].createdTimestamp]

\* C18: the history buildConversationHistory returns is in ascending order of
\* createdTimestamp; two kept messages of the same time stay in the order in
\* which the fetch returned them; every entry has the role of the message it
\* was made from. Messages fetched with times 3, 1, 2 come back as 1, 2, 3.
C18_AscendingAndStable ==
    histPc = "returned" =>
        /\ \A k, l \in 1..Len(histResult) :
            k < l =>
                LET a == histFetched[FetchIndex(histResult[k])]
                    b == histFetched[FetchIndex(histResult[l])]
                IN  \/ a.createdTimestamp < b.createdTimestamp
                    \/ /\ a.createdTimestamp = b.createdTimestamp
                       /\ a.id < b.id
        /\ \A k \in 1..Len(histResult) :
            histResult[k].role =
                (IF histFetched[FetchIndex(histResult[k])].bot THEN "assistant" ELSE "user")
        /\ (FetchedTimes = <<3, 1, 2>> /\ Len(histResult) = 3) =>
                FetchIndexes = <<2, 3, 1>>

\* C18 witness: the fetch returned three messages that are all kept, the second
\* older than the other two, which have the same time; the history has the
\* second first and the other two in the order of the fetch.
C18_Witness ==
    /\ histPc = "returned"
    /\ FetchedTimes = <<2, 1, 2>>
    /\ FetchIndexes = <<2, 1, 3>>
    /\ histResult[1].role = "assistant"
    /\ histResult[2].role = "user"

\* The example of C18: times 3, 1, 2, all kept.
C18_Example ==
    /\ histPc = "returned"
    /\ FetchedTimes = <<3, 1, 2>>
    /\ FetchIndexes = <<2, 3, 1>>

\* The fetched messages that are conversation: not written by the platform,
\* and with content.
Qualifies(msg) == ~msg.system /\ msg.content.chars # <<>>

\* C19: the history buildConversationHistory returns has one entry for every
\* fetched message that is not a system message and has content, and no other
\* entry; the entry has the message's content unchanged, role 'assistant' if
\* the author is a bot and role 'user' otherwise, never role 'system'; when no
\* fetched message qualifies the history is empty.
C19_ExactlyTheConversation ==
    histPc = "returned" =>
        LET kept == {i \in 1..Len(histFetched) : Qualifies(histFetched[i])}
        IN  /\ Len(histResult) = Cardinality(kept)
            /\ {FetchIndex(histResult[k]) : k \in 1..Len(histResult)} = kept
            /\ \A k \in 1..Len(histResult) :
                LET msg == histFetched[FetchIndex(histResult[k])]
                IN  /\ histResult[k].content = msg.content
                    /\ histResult[k].role = (IF msg.bot THEN "assistant" ELSE "user")
                    /\ histResult[k].role # "system"
            /\ kept = {} => histResult = <<>>

\* C19 witness: the fetch returned a system message, a bot's message and a
\* person's message; the history is the bot's message as 'assistant' and the
\* person's as 'user'.
C19_Witness ==
    /\ histPc = "returned"
    /\ Len(histFetched) = 3
    /\ histFetched[1].system /\ histFetched[1].content.chars # <<>>
    /\ histFetched[2].bot /\ histFetched[2].createdTimestamp = 1
    /\ ~histFetched[3].bot /\ histFetched[3].createdTimestamp = 2
    /\ histResult = <<[role |-> "assistant", content |-> histFetched[2].content],
                      [role |-> "user", content |-> histFetched[3].content]>>

\* A fetch whose messages are all skipped gives the empty history.
C19_NoneQualifies ==
    /\ histPc = "returned"
    /\ Len(histFetched) = 2
    /\ histFetched[1].system
    /\ histFetched[2].content.chars = <<>>
    /\ histResult = <<>>

-----------------------------------------------------------------------------
(* Properties of the eligibility check on system and empty messages (Spec) *)

\* C20, as stated: shouldProcessMessage returns false for a system message and
\* for a message without content, even when its author is the owner of the
\* thread it was written in.
C20_Original ==
    \A h \in Decided :
        (handlers[h].msg.system \/ isEmptyContent(handlers[h].msg.content)) =>
            ~handlers[h].eligible

-----------------------------------------------------------------------------
(* Properties of owner resolution (Spec) *)

\* The lookups that give no owner: fetchStarterMessage threw, found no message,
\* or found a message without interaction metadata.
GivesNoOwner(fetched) == fetched.threw \/ ~fetched.found \/ fetched.user = NoUser

\* C21: owner resolution never propagates a failure. When the lookup of the
\* starter message throws, finds nothing or finds no interaction metadata,
\* getThreadAuthorId gives null and the check answers false: the handler
\* returns, with nothing thrown and nothing caught. A check looks the starter
\* message up once if it gets that far and never again, and its answer depends
\* on its own lookup only, whatever earlier checks were given.
C21_OwnerLookupNeverThrows ==
    \A h \in 1..Len(handlers) :
        /\ handlers[h].lookups <= 1
        /\ handlers[h].thrownAt \cap {"check", "starter"} = {}
        /\ h \in Decided =>
            /\ handlers[h].lookups = (IF passesQuickChecks(handlers[h].msg) THEN 1 ELSE 0)
            /\ (handlers[h].lookups = 1 /\ GivesNoOwner(handlers[h].starterSeen)) =>
                /\ getThreadAuthorId(handlers[h].starterSeen) = NoUser
                /\ ~handlers[h].eligible
                /\ handlers[h].pc = "done"
                /\ ~handlers[h].caught
                /\ handlers[h].did = {}

\* C21 witness: the owner wrote twice in their thread. The first check was
\* given the starter message and accepted; the lookup of the second check
\* threw, and the second message was turned down without a failure.
C21_Witness ==
    /\ Len(handlers) = 2
    /\ \A h \in {1, 2} : handlers[h].msg.channel = "t1" /\ handlers[h].msg.author = "u1"
    /\ handlers[1].starterSeen = StarterBy("u1") /\ handlers[1].eligible
    /\ handlers[2].lookups = 1
    /\ handlers[2].starterSeen = StarterThrows
    /\ handlers[2].pc = "done" /\ ~handlers[2].eligible /\ ~handlers[2].caught

-----------------------------------------------------------------------------
(* Properties of failed lookups (SpecOne) *)

\* The handlers of a message its thread's owner wrote.
OfOwner == {h \in 1..Len(handlers) :
                /\ ~handlers[h].msg.bot
                /\ isThread(handlers[h].msg.channel)
                /\ handlers[h].msg.author = Owner(handlers[h].msg.channel)}

\* The handlers whose fetch of the thread's messages failed: the fetch of the
\* recent messages, or the fetch buildConversationHistory makes.
HistoryFetchFailed == {h \in 1..Len(handlers) :
                            handlers[h].thrownAt \cap {"recent", "build"} # {}}

\* The handlers whose lookup of the starter message threw.
StarterFetchFailed == {h \in Decided :
                            handlers[h].lookups = 1 /\ handlers[h].starterSeen.threw}

\* C22, as stated: when the fetch of the starter message or of the thread's
\* history fails for a message of the owner, exactly one generic failure notice
\* is posted in the thread (unless posting it fails).
C22_Original ==
    \A h \in OfOwner \cap (StarterFetchFailed \cup HistoryFetchFailed) :
        (handlers[h].pc = "done" /\ "notice" \notin handlers[h].thrownAt) =>
            Len(NoticesBy(h)) = 1

\* C22, amended: a failed fetch of the thread's messages is not retried and
\* ends, for the owner's message, in one generic failure notice posted in the
\* thread as the handler's only post (none if posting the notice fails); a
\* failed fetch of the starter message is not retried either, but is not shown
\* to anyone: the message is turned down and the bot posts nothing.
C22_HistoryFailureShownStarterFailureSilent ==
    /\ \A h \in HistoryFetchFailed :
        /\ handlers[h].pc \in {"notice", "done"}
        /\ handlers[h].fetched = <<>> /\ handlers[h].history = <<>>
        /\ handlers[h].requests = 0
        /\ handlers[h].pc = "notice" => OpsBy(h, outbox) = <<>>
        /\ (handlers[h].pc = "done" /\ "notice" \notin handlers[h].thrownAt) =>
            /\ Len(OpsBy(h, outbox)) = 1
            /\ OpsBy(h, outbox)[1].op = "send"
            /\ OpsBy(h, outbox)[1].content = errorNotice
            /\ OpsBy(h, outbox)[1].thread = handlers[h].msg.channel
        /\ (handlers[h].pc = "done" /\ "notice" \in handlers[h].thrownAt) =>
            OpsBy(h, outbox) = <<>>
    /\ \A h \in StarterFetchFailed :
        /\ handlers[h].pc = "done"
        /\ ~handlers[h].eligible
        /\ OpsBy(h, outbox) = <<>>
        /\ handlers[h].did = {}

\* C22 witness: the history fetch for a message of the owner failed, and the
\* handler ended having posted the notice and nothing else.
C22_Witness ==
    \E h \in OfOwner :
        /\ "build" \in handlers[h].thrownAt
        /\ handlers[h].pc = "done"
        /\ Len(OpsBy(h, outbox)) = 1
        /\ NoticesBy(h) = OpsBy(h, outbox)

\* The lookup of the starter message threw for a message of the owner, and the
\* handler ended without a post.
C22_StarterFailureSeen ==
    \E h \in OfOwner \cap StarterFetchFailed :
        handlers[h].pc = "done" /\ OpsBy(h, outbox) = <<>>

-----------------------------------------------------------------------------
(* Properties of the /chat command and of the threads it starts (SpecCommand) *)

\* The user whose /chat invocation started thread t.
Creator(t) ==
    LET i == CHOOSE i \in 1..Len(interactions) : interactions[i].thread = t
    IN  interactions[i].user

\* The checks that looked a thread's starter message up.
Resolutions == {h \in 1..Len(handlers) : handlers[h].lookups = 1}

\* C23: a thread started by /chat has one owner, the user who invoked the
\* command. The starter message keeps naming that user whatever is written in
\* the thread, however the thread is renamed and whenever the bot restarts;
\* every owner resolution that is given the starter message returns that user's
\* id, a resolution never returns another identity, and a message is accepted
\* only from that user.
C23_OwnerIsTheInvokingUser ==
    /\ \A t \in created : starter[t] = StarterBy(Creator(t))
    /\ \A h \in Resolutions :
        LET t == handlers[h].msg.channel
        IN  /\ handlers[h].authorId \in {Creator(t), NoUser}
            /\ ~GivesNoOwner(handlers[h].starterSeen) => handlers[h].authorId = Creator(t)
            /\ handlers[h].eligible =>
                /\ handlers[h].authorId = Creator(t)
                /\ handlers[h].msg.author = Creator(t)

\* C23 witness: the owner's first message was being handled, and the thread had
\* been renamed, when the bot restarted; the owner resolution for the owner's
\* next message, and the one before the restart, both gave the user who had
\* invoked /chat.
C23_Witness ==
    /\ Len(handlers) = 2
    /\ restartsLeft = 0
    /\ threadName["t1"] = "Greeting"
    /\ handlers[1].pc = "killed"
    /\ \A h \in {1, 2} :
        /\ handlers[h].msg.channel = "t1"
        /\ handlers[h].lookups = 1
        /\ handlers[h].authorId = Creator("t1")
        /\ handlers[h].eligible
    /\ handlers[2].pc = "done"

\* Another participant's message in the thread is turned down after the owner's.
C23_OtherTurnedDown ==
    /\ Len(handlers) = 2
    /\ handlers[1].eligible
    /\ handlers[2].lookups = 1 /\ handlers[2].msg.author # Creator("t1")
    /\ handlers[2].authorId = Creator("t1") /\ ~handlers[2].eligible

\* The interactions whose initial reply or thread creation failed.
CommandFailed == {i \in 1..Len(interactions) :
                    interactions[i].thrownAt \cap {"reply", "startThread"} # {}}

encounteredAnError ==
    <<"e", "n", "c", "o", "u", "n", "t", "e", "r", "e", "d", " ", "a", "n",
      " ", "e", "r", "r", "o", "r">>

encounteredAnUnexpectedError ==
    <<"e", "n", "c", "o", "u", "n", "t", "e", "r", "e", "d", " ", "a", "n",
      " ", "u", "n", "e", "x", "p", "e", "c", "t", "e", "d", " ", "e", "r",
      "r", "o", "r">>

LastResponse(i) == interactions[i].responses[Len(interactions[i].responses)]

\* C24, as stated: when the initial reply or the thread creation of /chat
\* fails, the user is sent a text containing 'encountered an error' (unless
\* sending it fails).
C24_Original ==
    \A i \in CommandFailed :
        (interactions[i].pc = "done" /\ "catch" \notin interactions[i].thrownAt) =>
            contains(LastResponse(i).content, encounteredAnError)

\* C24, amended: execute never throws. When the initial reply or the thread
\* creation fails, no thread is started and one error text is sent to the user,
\* with editReply when the interaction is deferred and as an ephemeral reply
\* otherwise, also when the initial reply had been sent. The text is
\* 'Sorry, I encountered an error: ' and the error's message when an Error was
\* thrown, and 'Sorry, I encountered an unexpected error. Please try again
\* later.' when something else was. When sending the text fails, execute ends
\* with nothing more sent.
C24_FailureAnsweredOnce ==
    \A i \in 1..Len(interactions) :
        LET it      == interactions[i]
            initial == IF "reply" \in it.thrownAt THEN 0 ELSE 1
        IN  /\ it.pc # "rejected"
            /\ i \in CommandFailed =>
                /\ it.pc \in {"catch", "done", "killed"}
                /\ it.thread = "none"
                /\ it.error \in CommandFailures
                /\ it.pc = "catch" => Len(it.responses) = initial
                /\ (it.pc = "done" /\ "catch" \in it.thrownAt) => Len(it.responses) = initial
                /\ (it.pc = "done" /\ "catch" \notin it.thrownAt) =>
                    /\ Len(it.responses) = initial + 1
                    /\ LastResponse(i).via = (IF it.deferred THEN "editReply" ELSE "reply")
                    /\ LastResponse(i).ephemeral = ~it.deferred
                    /\ IF it.error.isError
                       THEN /\ contains(LastResponse(i).content, encounteredAnError)
                            /\ contains(LastResponse(i).content, it.error.message)
                       ELSE /\ contains(LastResponse(i).content,
                                        encounteredAnUnexpectedError)
                            /\ ~contains(LastResponse(i).content, encounteredAnError)
            /\ (i \notin CommandFailed /\ it.pc = "done") =>
                /\ it.thread \in created
                /\ it.responses = <<Response("reply", conversationStarted, FALSE)>>

\* C24 witness: the initial reply was sent, the thread creation threw an Error,
\* and the user was sent the error text in a second, ephemeral reply.
C24_Witness ==
    \E i \in 1..Len(interactions) :
        /\ interactions[i].thrownAt = {"startThread"}
        /\ interactions[i].pc = "done"
        /\ ~interactions[i].deferred
        /\ interactions[i].error.isError
        /\ Len(interactions[i].responses) = 2
        /\ LastResponse(i).via = "reply" /\ LastResponse(i).ephemeral
        /\ contains(LastResponse(i).content, encounteredAnError)

\* The initial reply failed on a deferred interaction, and sending the error
\* text failed too: execute ended with nothing sent.
C24_ErrorTextFailed ==
    \E i \in 1..Len(interactions) :
        /\ interactions[i].thrownAt = {"reply", "catch"}
        /\ interactions[i].deferred
        /\ interactions[i].pc = "done"
        /\ interactions[i].responses = <<>>

-----------------------------------------------------------------------------
(* Properties of the order of events in sendChatRequest (SpecChat) *)

\* The call has ended: it returned or it failed.
ChatEnded == chatPc \in {"returned", "thrown"}

\* Where the events of a call stand, position by position of the call.
ChatEventsInOrder ==
    /\ chatPc = "start" => events = <<>> /\ fetchCalls = 0
    /\ fetchCalls = Len(backendLog) + (IF chatPc = "inflight" THEN 1 ELSE 0)
    /\ chatPc = "attempt" => attempt = fetchCalls
    /\ chatPc = "inflight" => attempt = fetchCalls - 1
    /\ chatPc = "thrown" => fetchCalls = maxRetries + 1
    /\ ~callsObserver => events = <<>>
    /\ callsObserver =>
        /\ chatPc # "start" =>
            /\ Len(events) >= 1
            /\ events[1] = thinkingEvent
            /\ \A k \in 2..Len(events) :
                /\ events[k].type = "retrying"
                /\ events[k].attempt = k - 1
        /\ chatPc = "attempt" => Len(events) = fetchCalls + 1
        /\ chatPc = "inflight" => Len(events) = fetchCalls
        /\ chatPc = "returned" => Len(events) = fetchCalls
        /\ chatPc = "thrown" => Len(events) = maxRetries + 1

\* C25: during one sendChatRequest call the observer of the call is told {thinking} before
\* the first invocation of the backend and never again; the {retrying} event
\* of a failed attempt that is not the last comes after that attempt has ended
\* and before the next invocation; there is one invocation per attempt and never
\* two at a time; once the call has returned or failed there is no further
\* event and no further invocation.
C25_EventsTotallyOrdered ==
    /\ []ChatEventsInOrder
    /\ [][ChatEnded => (events' = events /\ fetchCalls' = fetchCalls /\ chatPc' = chatPc)]_vars

\* C25 witness: the third invocation is in flight after two failed attempts, and
\* the observer has been told {thinking}, {retrying 1}, {retrying 2}.
C25_Witness ==
    /\ chatPc = "inflight"
    /\ fetchCalls = 3
    /\ Len(backendLog) = 2
    /\ Len(events) = 3
    /\ events[1] = thinkingEvent
    /\ events[2].type = "retrying" /\ events[2].attempt = 1
    /\ events[3].type = "retrying" /\ events[3].attempt = 2

\* C26: an attempt aborted by its 30-second timer is a failed attempt like any
\* other. It is one of the 10 attempts; when it is not the last, the observer
\* of the call is told {retrying} with the attempt's number and the error
\* 'Request timeout after 30000ms' before the next invocation; when it is the
\* last, the call fails.
C26_TimeoutCountsAsFailure ==
    \A i \in 1..Len(backendLog) :
        backendLog[i] = AbortError =>
            /\ i <= maxRetries + 1
            /\ fetchCalls >= i
            /\ i <= maxRetries =>
                /\ callsObserver =>
                    /\ Len(events) >= i + 1
                    /\ events[i + 1] =
                         [type |-> "retrying", attempt |-> i, maxAttempts |-> maxRetries + 1,
                          error |-> [error |-> "Request timeout after 30000ms", status |-> ""]]
                    /\ fetchCalls > i => Len(events) >= fetchCalls
                /\ (Len(backendLog) = i) => (chatPc \in {"attempt", "inflight"} /\ attempt = i)
            /\ i = maxRetries + 1 => chatPc = "thrown"

\* C26 witness: the first two attempts timed out, the third returned content.
C26_Witness ==
    /\ chatPc = "returned"
    /\ backendLog[1] = AbortError
    /\ backendLog[2] = AbortError
    /\ Len(backendLog) = 3
    /\ fetchCalls = 3
    /\ Len(events) = 3
    /\ events[3].error.error = "Request timeout after 30000ms"

\* Every attempt timed out: the call failed after 10 invocations.
C26_AllTimedOut ==
    /\ chatPc = "thrown"
    /\ \A i \in 1..(maxRetries + 1) : backendLog[i] = AbortError
    /\ fetchCalls = maxRetries + 1

-----------------------------------------------------------------------------
(* Properties of the order of a handler's steps (Spec) *)

\* C27: a handler takes its steps in this order: eligibility check, history
\* build, post of the indicator, completion call, delivery. Nothing is done
\* before the message is accepted; the indicator is posted after the history
\* was fetched, so every fetched message is older than the handler's own
\* indicator; the completion client is called only once the indicator is
\* posted; a chunk is delivered only once the completion call has returned.
C27_StepsInOrder ==
    \A h \in 1..Len(handlers) :
        LET H   == handlers[h]
            ops == OpsBy(h, outbox)
        IN  /\ H.pc \in {"check", "starter"} => (H.did = {} /\ ops = <<>>)
            /\ (H.did # {} \/ ops # <<>>) => H.eligible
            /\ "buildHistory" \in H.did => "fetchRecent" \in H.did
            /\ H.fetched # <<>> => "buildHistory" \in H.did
            /\ H.statusMessage # NoMessageId =>
                /\ "buildHistory" \in H.did
                /\ H.fetched # <<>>
                /\ \A k \in 1..Len(H.fetched) : H.fetched[k].id < H.statusMessage
                /\ ops[1] = [op |-> "send", thread |-> H.msg.channel,
                             target |-> H.statusMessage, content |-> Thinking, by |-> h]
            /\ H.requests > 0 => H.statusMessage # NoMessageId
            /\ H.response # <<>> => H.requests >= 1
            /\ ResponseOps(h) # <<>> =>
                /\ H.response # <<>>
                /\ H.pc \in {"chunks", "done", "notice"}

\* C27 witness: two messages of the owner in one thread; the second handler
\* fetched its history when the first handler's indicator was in the thread,
\* then posted its own indicator, called the backend and delivered.
C27_Witness ==
    /\ Len(handlers) = 2
    /\ handlers[1].statusMessage # NoMessageId
    /\ \E k \in 1..Len(handlers[2].fetched) :
            handlers[2].fetched[k].id = handlers[1].statusMessage
    /\ handlers[2].statusMessage > handlers[1].statusMessage
    /\ handlers[2].requests = 1
    /\ handlers[2].pc = "done" /\ ~handlers[2].caught
    /\ Len(ResponseOps(2)) >= 1

-----------------------------------------------------------------------------
(* Properties of the cut point and of termination of chunkMessage (SpecChunk) *)

\* The loop is about to carve a chunk: the remainder does not fit.
Carving == chunkPc = "loop" /\ Len(remainingText) > maxLength

\* The offsets just after a sentence boundary in the first maxLength characters
\* of the remainder: after the whitespace that follows a terminator, or at the
\* end of the window when the window ends with a terminator.
SentenceOffsets ==
    {j + 1 : j \in {j \in 1..(maxLength - 1) :
                        remainingText[j] \in SentenceEnd
                            /\ remainingText[j + 1] \in Whitespace}}
        \cup (IF remainingText[maxLength] \in SentenceEnd THEN {maxLength} ELSE {})

\* The offsets, up to maxLength, at which the remainder has character c.
OffsetsOf(c) == {i \in 0..maxLength : remainingText[i + 1] = c}

LastOf(offsets) == IF offsets = {} THEN -1 ELSE Max(offsets)

\* The gate, strict and inclusive.
BeyondHalf(offset) == offset > 0 /\ 2 * offset > maxLength
AtLeastHalf(offset) == offset > 0 /\ 2 * offset >= maxLength

\* The cut the order of preference asks for: sentence boundary, newline, space,
\* each only if beyond half of maxLength, else maxLength.
PreferredCut ==
    IF BeyondHalf(LastOf(SentenceOffsets)) THEN LastOf(SentenceOffsets)
    ELSE IF BeyondHalf(LastOf(OffsetsOf("\n"))) THEN LastOf(OffsetsOf("\n"))
    ELSE IF BeyondHalf(LastOf(OffsetsOf(" "))) THEN LastOf(OffsetsOf(" "))
    ELSE maxLength

\* The same order of preference with a gate that lets exactly half through.
PreferredCutInclusive ==
    IF AtLeastHalf(LastOf(SentenceOffsets)) THEN LastOf(SentenceOffsets)
    ELSE IF AtLeastHalf(LastOf(OffsetsOf("\n"))) THEN LastOf(OffsetsOf("\n"))
    ELSE IF AtLeastHalf(LastOf(OffsetsOf(" "))) THEN LastOf(OffsetsOf(" "))
    ELSE maxLength

\* The loop iteration cuts the remainder at offset `cut`.
CutsAt(cut) ==
    /\ remainingText' = trim(substringFrom(remainingText, cut))
    /\ chunks' = IF trim(substring(remainingText, 0, cut)) # <<>>
                 THEN Append(chunks, trim(substring(remainingText, 0, cut)))
                 ELSE chunks

\* C28: when the remainder is longer than maxLength, the loop cuts it at the
\* last sentence boundary of the window if that passes the gate, else at the
\* last newline if that passes, else at the last space if that passes, else at
\* maxLength: a sentence boundary behind the gate wins over a later newline or
\* space, and a boundary before the gate is not used.
C28_CutByPreference ==
    [][Carving => (CutsAt(PreferredCut)
                    /\ (PreferredCut = maxLength \/ BeyondHalf(PreferredCut)))]_vars

\* C28 witness: "a. a a" with maxLength 4 has a sentence boundary at offset 3
\* and a space at offset 4, both behind the gate; the cut was made at the
\* sentence boundary.
C28_Witness ==
    /\ ChunkDone
    /\ maxLength = 4
    /\ text = <<"a", ".", " ", "a", " ", "a">>
    /\ chunks = <<<<"a", ".">>, <<"a", " ", "a">>>>

\* A newline at the gate is passed over for a hard cut: "a\naaaa" with
\* maxLength 4 is cut at 4.
C28_GateSeen ==
    /\ ChunkDone
    /\ maxLength = 4
    /\ text = <<"a", "a", "\n", "a", "a", "a">>
    /\ chunks = <<<<"a", "a", "\n", "a">>, <<"a", "a">>>>

\* C29, as stated: the gate is inclusive, so a boundary at exactly half of
\* maxLength is taken as the cut.
C29_Original == [][Carving => CutsAt(PreferredCutInclusive)]_vars

\* C30: chunkMessage terminates for every text and every maxLength >= 1. An
\* iteration on a remainder that does not fit leaves a shorter remainder and
\* stays in the loop; the loop is left as soon as the remainder is empty or
\* fits.
C30_Terminates ==
    /\ [][Carving => (Len(remainingText') < Len(remainingText) /\ chunkPc' = "loop")]_vars
    /\ [][(chunkPc = "loop" /\ Len(remainingText) <= maxLength) => chunkPc' = "done"]_vars
    /\ [][chunkPc' = "done" =>
            (chunkPc = "start" \/ Len(remainingText) = 0 \/ Len(remainingText) <= maxLength)]_vars
    /\ <>(chunkPc = "done")

\* C30 witness: with maxLength 1 a text of the greatest length was carved one
\* character at a time.
C30_Witness ==
    /\ ChunkDone
    /\ maxLength = 1
    /\ Len(text) = MaxFairTextLen
    /\ Len(chunks) = MaxFairTextLen

-----------------------------------------------------------------------------
(* Properties of the status observer (SpecOne, Spec) *)

\* The handlers one of whose retry-status edits failed.
StatusEditFailed == {h \in 1..Len(handlers) : "status" \in handlers[h].thrownAt}

\* C31: a failure of the observer's edit of the indicator stays in the
\* observer. Whether or not an edit failed, the completion call makes one
\* request per attempt and skips none, fails only after maxRetries + 1 failed
\* requests, and returns the content of its successful request; a failure
\* notice is never due to a failed status edit alone.
C31_ObserverFailureStaysInObserver ==
    \A h \in 1..Len(handlers) :
        /\ handlers[h].pc = "attempt" => handlers[h].requests = handlers[h].attempt
        /\ handlers[h].pc = "status" => handlers[h].requests = handlers[h].attempt + 1
        /\ "attempt" \in handlers[h].thrownAt =>
                /\ handlers[h].requests = maxRetries + 1
                /\ handlers[h].lastError # NoError
        /\ (handlers[h].pc = "notice" \/ NoticesBy(h) # <<>>) =>
                handlers[h].thrownAt \ {"status"} # {}
        /\ handlers[h].response # <<>> =>
                /\ handlers[h].response \in Contents
                /\ handlers[h].requests = handlers[h].attempt + 1
                /\ handlers[h].chunks = chunkMessage(handlers[h].response, MessageLimit)

\* A handler whose status edit failed, and whose completion call went on to a
\* later attempt, returned, and had its response delivered.
C31_Witness ==
    \E h \in StatusEditFailed :
        /\ handlers[h].pc = "done"
        /\ handlers[h].requests >= 2
        /\ handlers[h].response # <<>>
        /\ handlers[h].thrownAt = {"status"}
        /\ \E i \in 1..Len(outbox) :
                /\ outbox[i].by = h
                /\ outbox[i].op = "edit"
                /\ outbox[i].content = Text(handlers[h].chunks[1])

\* A handler whose status edit failed, and whose completion call still made all
\* its attempts before it failed.
C31_ExhaustedAfterFailedEdit ==
    \E h \in StatusEditFailed :
        /\ "attempt" \in handlers[h].thrownAt
        /\ handlers[h].requests = maxRetries + 1

\* What the observer of handler h did to the thread: every operation of h that
\* carries a retry status, and every edit that is not part of the delivery.
ObserverOps(h) ==
    SelectSeq(OpsBy(h, outbox),
              LAMBDA e : e.content.kind = "retrying"
                            \/ (e.op = "edit" /\ e.content.kind # "text"))

\* C32: the observer edits the indicator of its own event once for each
\* {retrying} event, to a text with the attempt number, maxAttempts and the
\* last error; {thinking} leaves the indicator as it was posted; the observer
\* sends no message and edits no other message. (A completion call that tells
\* its observer nothing has one {retrying} event per failed attempt but the
\* last to tell; without events the observer does nothing.)
C32_ObserverEditsOwnIndicatorOnRetry ==
    \A h \in 1..Len(handlers) :
        LET ops == ObserverOps(h)
            t   == handlers[h].msg.channel
        IN  /\ Len(ops) <= handlers[h].attempt
            /\ (callsObserver /\ h \notin StatusEditFailed) => Len(ops) = handlers[h].attempt
            /\ ~callsObserver => ops = <<>>
            /\ \A k \in 1..Len(ops) :
                    /\ ops[k].op = "edit"
                    /\ ops[k].thread = t
                    /\ ops[k].target = handlers[h].statusMessage
                    /\ ops[k].content.kind = "retrying"
                    /\ ops[k].content.attempt \in 1..handlers[h].attempt
                    /\ h \notin StatusEditFailed => ops[k].content.attempt = k
                    /\ k > 1 => ops[k].content.attempt > ops[k - 1].content.attempt
                    /\ ops[k].content.maxAttempts = maxRetries + 1
                    /\ ops[k].content.error # NoError
            /\ (handlers[h].statusMessage # NoMessageId /\ ops = <<>> /\ ResponseOps(h) = <<>>) =>
                    Shown(t, handlers[h].statusMessage) = Thinking
            /\ (ops # <<>> /\ ResponseOps(h) = <<>>) =>
                    Shown(t, handlers[h].statusMessage) = ops[Len(ops)].content

\* Two events of one thread: the observer of one has edited its indicator to
\* the retry status, while the indicator of the other, whose completion call
\* has begun and returned, still shows what it was posted with.
C32_Witness ==
    \E h, g \in 1..Len(handlers) :
        /\ h # g
        /\ handlers[h].msg.channel = handlers[g].msg.channel
        /\ Len(ObserverOps(h)) = 1
        /\ ObserverOps(h)[1].content.attempt = 1
        /\ Shown(handlers[h].msg.channel, handlers[h].statusMessage).kind = "retrying"
        /\ handlers[g].pc = "deliver"
        /\ handlers[g].requests = 1
        /\ Shown(handlers[g].msg.channel, handlers[g].statusMessage) = Thinking

\* One event: the observer has edited the indicator nine times, once for each
\* failed attempt but the last.
C32_NineEdits ==
    \E h \in 1..Len(handlers) :
        /\ Len(ObserverOps(h)) = maxRetries
        /\ handlers[h].requests = maxRetries + 1

-----------------------------------------------------------------------------
(* Properties of a failed delivery (SpecOne) *)

\* The handlers whose delivery failed: the edit of the indicator to the first
\* chunk threw, or the send of a later chunk threw.
DeliveryFailed == {h \in 1..Len(handlers) :
                        handlers[h].thrownAt \cap {"deliver", "chunks"} # {}}

\* C33: a failure to post the outcome is only logged: the handler of an event
\* whose delivery failed is not about to post a failure notice and has posted
\* none.
C33_Original ==
    \A h \in DeliveryFailed :
        /\ handlers[h].pc # "notice"
        /\ NoticesBy(h) = <<>>

-----------------------------------------------------------------------------
(* Properties of the request of sendChatRequest (SpecRequest) *)

SystemEntries(messages) == {i \in 1..Len(messages) : messages[i].role = "system"}

RequestBuilt == reqPc \in {"prepared", "returned", "thrown"}

RequestHasDirective ==
    RequestBuilt =>
        /\ IF Len(reqMessages) > 0 /\ reqMessages[1].role = "system"
           THEN reqBody = reqMessages
           ELSE /\ Len(reqBody) = Len(reqMessages) + 1
                /\ reqBody[1] = [role |-> "system", content |-> systemPrompt]
                /\ \A i \in 1..Len(reqMessages) : reqBody[i + 1] = reqMessages[i]
        /\ SystemEntries(reqMessages) = {} => SystemEntries(reqBody) = {1}
        /\ \A k \in 1..Len(reqSent) : reqSent[k] = reqBody

\* C34: the request carries the caller's list with the system directive
\* prepended, or the list itself when its first entry is a system entry; every
\* fetch of the call carries that same body; a list without system entry is
\* sent with exactly one, in the first place; and the caller's list is never
\* changed.
C34_DirectivePrependedUnlessPresent ==
    /\ []RequestHasDirective
    /\ [][reqMessages' = reqMessages]_vars

\* A list that begins with a system entry was sent as it was given, and a
\* retry carried it again.
C34_Witness ==
    /\ reqPc = "returned"
    /\ Len(reqMessages) = 2
    /\ reqMessages[1].role = "system"
    /\ reqMessages[2].role = "user"
    /\ Len(reqSent) = 2
    /\ reqSent[2] = reqMessages

\* A list of a user's and the assistant's entries was sent with the directive
\* before it.
C34_Prepended ==
    /\ reqPc = "returned"
    /\ Len(reqMessages) = 2
    /\ SystemEntries(reqMessages) = {}
    /\ Len(reqSent) = 1
    /\ Len(reqSent[1]) = 3
    /\ reqSent[1][1].content = systemPrompt

\* The same for the requests the handler issues: the history built from a
\* thread has no system entry, and the request carries the directive and then
\* the history.
RequestsOfThreadMessages ==
    \A h \in 1..Len(handlers) :
        handlers[h].requests > 0 =>
            /\ SystemEntries(handlers[h].history) = {}
            /\ SystemEntries(handlers[h].request) = {1}
            /\ handlers[h].request =
                    <<[role |-> "system", content |-> systemPrompt]>> \o handlers[h].history
            /\ handlers[h].history = buildConversationHistory(handlers[h].fetched)

-----------------------------------------------------------------------------
(* Properties of the naming of threads (SpecBacklog, SpecOne) *)

\* The messages of a thread that count as user messages: `!msg.author.bot &&
\* msg.content`.
UserMessagesOf(t) ==
    SelectSeq(store[t], LAMBDA m : ~m.bot /\ ~isEmptyContent(m.content))

\* The handlers that started the generation of a thread name.
StartedNaming == {h \in 1..Len(handlers) : handlers[h].nameTask # "none"}

\* C35: the generation of a thread name is started only by the handler of the
\* first user message of the thread, whatever the bot has posted since.
C35_Original ==
    \A h \in StartedNaming :
        UserMessagesOf(handlers[h].msg.channel)[1].id = handlers[h].msg.id

\* The steps of a handler proper, without its background task.
HandlerOwnStep(h) ==
    \/ HandlerCheck(h)
    \/ HandlerResolveOwner(h)
    \/ HandlerFetchRecent(h)
    \/ HandlerBuildHistory(h)
    \/ HandlerPostIndicator(h)
    \/ HandlerAttempt(h)
    \/ HandlerAttemptFails(h)
    \/ HandlerAttemptRetries(h)
    \/ HandlerShowRetry(h)
    \/ HandlerDeliverFirst(h)
    \/ HandlerSendChunk(h)
    \/ HandlerNotice(h)

\* The background task of h fails in this step.
NamingFails(h) ==
    /\ h <= Len(handlers)
    /\ handlers[h].nameTask = "started"
    /\ handlers'[h].nameTask = "failed"

NamingInBackground ==
    \A h \in 1..Len(handlers) :
        /\ (handlers[h].nameTask = "started" /\ handlers[h].pc # "done") =>
                ENABLED HandlerOwnStep(h)
        /\ handlers[h].nameTask = "failed" =>
                /\ threadName[handlers[h].msg.channel] = "Chat"
                /\ handlers[h].pc # "rejected"
                /\ (handlers[h].pc = "notice" \/ NoticesBy(h) # <<>>) =>
                        handlers[h].thrownAt # {}

\* C36: the generation of the thread name runs beside the handler. While it
\* is under way the handler can take its next step; when it fails, the
\* handler is where it was and as it was, nothing is posted, and the thread
\* keeps its name; a notice is posted only for a failure of the handler's own
\* steps.
C36_NamingRunsInBackground ==
    /\ []NamingInBackground
    /\ [][\A h \in 1..MaxEvents : NamingFails(h) =>
                /\ handlers' = [handlers EXCEPT ![h].nameTask = "failed"]
                /\ threadName' = threadName
                /\ outbox' = outbox
                /\ store' = store]_vars

\* The name generation of an event failed, and the event was answered all the
\* same: its indicator shows the response, no notice was posted, and the
\* thread has the name it had.
C36_Witness ==
    \E h \in 1..Len(handlers) :
        /\ handlers[h].nameTask = "failed"
        /\ handlers[h].pc = "done"
        /\ handlers[h].response # <<>>
        /\ Shown(handlers[h].msg.channel, handlers[h].statusMessage)
                = Text(handlers[h].chunks[1])
        /\ NoticesBy(h) = <<>>
        /\ threadName[handlers[h].msg.channel] = "Chat"

\* An event was answered while the generation of the name was still under way.
C36_AnsweredBeforeNamed ==
    \E h \in naming :
        /\ handlers[h].nameTask = "started"
        /\ handlers[h].pc = "done"
        /\ handlers[h].response # <<>>
        /\ Shown(handlers[h].msg.channel, handlers[h].statusMessage)
                = Text(handlers[h].chunks[1])

-----------------------------------------------------------------------------
(* Properties of ChatService.generateThreadName (SpecNaming) *)

\* The first n characters of s (all of s when it is shorter).
FirstChars(s, n) == [i \in 1..Min({n, Len(s)}) |-> s[i]]

\* C37: generateThreadName returns a name of 1 to 50 characters: 'Chat' when
\* the completion call failed or the reply is empty or only whitespace, and
\* otherwise the first 50 characters of the trimmed reply. Every request of
\* the call carries two messages, the naming prompt and the user message.
C37_NameWithinLimitOrFallback ==
    /\ \A k \in 1..Len(reqSent) :
            reqSent[k] = <<[role |-> "system", content |-> threadNamePrompt],
                           [role |-> "user", content |-> Text(nameUser)]>>
    /\ namePc = "returned" =>
            /\ Len(reqSent) \in 1..(maxRetries + 1)
            /\ Len(nameResult) \in 1..nameLimit
            /\ nameResult =
                    IF reqResult.threw THEN fallbackName
                    ELSE IF \A i \in 1..Len(reqResult.content) :
                                reqResult.content[i] \in Whitespace
                    THEN fallbackName
                    ELSE FirstChars(trim(reqResult.content), nameLimit)

\* A reply of more than 50 characters, with whitespace before it, came back as
\* its first 50 characters after the whitespace.
C37_Witness ==
    /\ namePc = "returned"
    /\ ~reqResult.threw
    /\ reqResult.content[1] = " "
    /\ Len(trim(reqResult.content)) > nameLimit
    /\ nameResult = Repeat("a", nameLimit)

\* A reply of whitespace only came back as 'Chat'.
C37_WhitespaceGivesChat ==
    /\ namePc = "returned"
    /\ ~reqResult.threw
    /\ reqResult.content = <<" ", "\n">>
    /\ nameResult = fallbackName

\* The completion call failed, after all its attempts, and the name is 'Chat'.
C37_FailureGivesChat ==
    /\ namePc = "returned"
    /\ reqResult.threw
    /\ Len(reqSent) = maxRetries + 1
    /\ nameResult = fallbackName

-----------------------------------------------------------------------------
(* Properties of the histories the handler builds (Spec) *)

\* The kinds of the texts the bot posts besides the chunks of a response: the
\* indicator, the retry status and the failure notice.
InterimKinds == {"thinking", "retrying", "notice"}

\* C38: no assistant entry of a history built by a handler is an indicator
\* text, a retry status or a failure notice of the bot.
C38_Original ==
    \A h \in Built :
        \A i \in 1..Len(handlers[h].history) :
            handlers[h].history[i].role = "assistant" =>
                handlers[h].history[i].content.kind \notin InterimKinds

\* The handlers that have called sendChatRequest.
Requested == {h \in 1..Len(handlers) : handlers[h].requests > 0}

\* C39: the history a handler passes to sendChatRequest is not empty, and its
\* last entry is the triggering message, as a user entry.
C39_Original ==
    \A h \in Requested :
        LET history == handlers[h].history
        IN  /\ history # <<>>
            /\ history[Len(history)] =
                    [role |-> "user", content |-> handlers[h].msg.content]

=============================================================================
